---- MODULE Spec2Model ----
(***************************************************************************)
(* Supervised ffmpeg subprocess services of the repository.                *)
(*                                                                         *)
(* Part I   the EOF-aware supervisor (the server appended to src/Dockerfile*)
(*          from line 47 on): startStream / stopStream / scheduleRestart.  *)
(* Part II  the backoff delay of scheduleRestart as a pure function, in    *)
(*          both variants that compute one.                                *)
(* Part III the position-resume supervisor (third server of src/server.js, *)
(*          lines 512-898).                                                *)
(* Part IV  StreamFetcher (src/src/stream-fetcher.js).                     *)
(* Part V   the multi-component server (src/unnamed/part_005):             *)
(*          startStreaming / stopStreaming over fetcher, continuity        *)
(*          controller and publisher.                                      *)
(* Part VI  StreamPublisher (src/src/stream-publisher.js).                 *)
(* Part VII what startStream (Part I) and startDirectPublisher (Part VI)   *)
(*          write to the log when they spawn a subprocess.                 *)
(*                                                                         *)
(* Node runs every handler to completion on one event loop, so each        *)
(* handler (HTTP route, timer callback, child-process event) is one        *)
(* action.  A timer armed with setTimeout is an element of a bag of        *)
(* pending timers and fires at some later turn of the loop (the runtime    *)
(* guarantees neither the exact time nor the order of timer callbacks);    *)
(* lastTimeout records the latest setTimeout call.  Delays are in          *)
(* microseconds, so that every backoff delay the code computes in          *)
(* floating point (25312.5 ms, ...) is an integer here.                    *)
(***************************************************************************)
EXTENDS Integers, Sequences, FiniteSets, Bags, TLC

(***************************************************************************)
(* Bounds of the model.                                                    *)
(***************************************************************************)
\* child processes whose 'close' event is still to come, at any one time
MaxProcs == 2
\* setTimeout callbacks pending at any one time
MaxTimers == 2
\* stderr chunks retained in lastStderr (the code retains 1000 characters)
StderrKeep == 1
\* clock steps that make up the 10 s EOF rate-limit window
ClockSteps == 1
\* largest playback position tracked, in centiseconds
MaxPosition == 600
\* largest restartAttempts the position-resume supervisor's error handler reaches
AttemptsCap == 12
\* largest segment number the segmenter writes
MaxSegId == 3
\* how far a restarted segmenter's start number may lie ahead
StartNumberGap == 2
\* registerSegment calls in flight (awaiting fs.stat or the 100 ms timer)
MaxStats == 2
\* segment-generation subprocesses alive at once
MaxSegProcs == 1
\* async calls in flight at once (multi-component server)
MaxCalls == 3
\* health-monitor intervals alive at once
MaxIntervals == 2
\* publisher subprocesses that have not exited (StreamPublisher)
MaxPubProcs == 2
\* pending reconnect timers per endpoint, and pending settle timers
MaxPubTimers == 1

(***************************************************************************)
(* Part I.  EOF-aware supervisor: program constants (milliseconds, as in   *)
(* the source).                                                            *)
(***************************************************************************)
maxRestartAttempts == 15
maxRestartDelay == 60000
InitialRestartDelay == 5000
EofWindow == 10000
EofDelayFrequent == 3000
EofDelayNormal == 1000
StabilizationDelay == 45000
RestartRequestDelay == 2000
AutoStartDelay == 3000

Us(ms) == ms * 1000

NoProc == 0
Procs == 1..MaxProcs

\* Exit codes of a child that was spawned: clean exit, general error, any
\* other code (234 stands for every code that is neither 0 nor 1; the null
\* code of a signal exit takes the same branches: null !== 0, null !== 1).
ExitCodes == {0, 1, 234}
\* The code 'close' carries after a failed spawn (negative errno, ENOENT).
SpawnFailCode == -2

\* A stderr chunk is one of: a line holding an end-of-stream marker
\* ("End of file", "Immediate exit requested", "Server returned 416",
\* "HTTP/1.1 416"), a progress line ("Stream mapping:", "fps=", "frame="),
\* any other text.
Chunks == {"eof", "fps", "txt"}

VARIABLES
    streamProcess,       \* NoProc (null) or the child the handle refers to
    streamStatus,        \* 'stopped' 'starting' 'streaming' 'error' 'failed'
    lastError,           \* null or the kind of the last error message
    startTime,           \* null or a Date
    lastStderr,          \* retained stderr tail, a sequence of chunks
    sinceLastEOFRestart, \* Date.now() - lastEOFRestart in ms, saturating at EofWindow
    restartAttempts,
    restartDelay,        \* ms
    intentionalStop,
    timers,              \* bag of pending setTimeout callbacks
    lastTimeout,         \* history: kind and delay of the latest setTimeout call
    procs,               \* child processes: lifecycle and the closure's isConnected
    envOK,               \* RTMP_URL, STREAM_KEY and VIDEO_URL are all set
    stopIdle,            \* history: stopStream ran with no child and a restart timer
                         \* pending; no start or restart request and no spawn since
    stopExit             \* history: a child's exit was handled as intentional; no
                         \* start or restart request and no spawn since

\* Part II: one evaluation of the backoff delay at two attempt counts
VARIABLES
    bo_variant,          \* "eof" (src/Dockerfile) or "resume" (src/server.js)
    bo_n, bo_m,          \* the two values of restartAttempts
    bo_dn, bo_dm,        \* the delays computed for them, NotComputed before
    bo_pc                \* "in" before the evaluation, "out" after

\* Part III: the position-resume supervisor; positions are in centiseconds
VARIABLES
    pr_streamProcess,
    pr_streamStatus,
    pr_lastError,
    pr_startTime,
    pr_restartAttempts,
    currentPosition,
    lastStablePosition,
    totalStreamTime,
    sessionStartPosition,
    pr_timers,           \* bag of pending setTimeout callbacks
    pr_lastTimeout,      \* history: kind and delay of the latest setTimeout call
    pr_procs,            \* child processes: lifecycle and the -ss argument
    pr_envOK

\* Part IV: StreamFetcher and its cache directory; segmentDuration is in tenths
\* of a second
VARIABLES
    sf_maxCacheSize,     \* options.maxCacheSize, seconds
    sf_segmentDuration,  \* options.segmentDuration, tenths of a second
    sf_segments,         \* this.segments: segment id -> ready
    sf_files,            \* ids whose segment_<id>.ts exists in the cache directory
    sf_checkpoint,       \* checkpoint.json: NoCheckpoint or the saved segments
    sf_isRunning,
    sf_fileWatcher,      \* the 1 s interval is set
    sf_procs,            \* segment-generation subprocesses that have not exited
    sf_restartTimers,    \* pending setTimeout(() => this.generateSegments(), delay)
    sf_nextId,           \* number of the next segment the segmenter writes
    sf_stats,            \* ids of registerSegment calls awaiting fs.stat
    sf_delayed,          \* ids of pending 100 ms registerSegment timers
    sf_evicted,          \* history: how many ids the latest cleanupOldSegments removed
    sf_lastOp            \* history: the method called last ("new", "start", "stop",
                         \* "initialize" when it loaded a checkpoint,
                         \* "initializeFresh" when it found none it could read,
                         \* "initializeFailed" when it returned false), "event"
                         \* once an event was handled since

\* Part V: the multi-component server
VARIABLES
    ms_envOK,         \* RTMP_URL, STREAM_KEY and VIDEO_URL are all set
    systemStatus,
    ms_lastError,     \* lastError
    ms_startTime,     \* startTime: "null" or "date"
    healthMonitor,    \* the handle variable is not null
    ms_intervals,     \* setInterval timers of startHealthMonitoring not yet cleared
    streamFetcher,    \* "null", or the fetcher with isRunning false ("idle") / true
    streamPublisher,  \* "null", or the publisher with isRunning false ("idle") / true
    ms_calls,         \* bag of async calls suspended at an await
    ms_lastRequest,   \* history: what the latest request called
    ms_reconnects,    \* streamPublisher's stats.reconnects, as far as the health
                      \* check reads it: 0, or 1 for any count up to
                      \* ReconnectThreshold, or ReconnectThreshold + 1 for more
    ms_fallbacks,     \* history: fallbackQuality() calls of the health monitor
                      \* since stats.reconnects was last 0, counted up to 2
    ms_lastTick       \* history: what a health check that found the system
                      \* running saw and did, NoTick once anything else happened

\* Part VI: StreamPublisher with a primary and a backup endpoint
VARIABLES
    sp_isRunning,
    sp_active,            \* endpoint.active, by endpoint name
    sp_procs,             \* publisher subprocesses, by slot
    sp_publishers,        \* this.publishers: endpoint name -> slot, 0 when absent
    sp_activeConnections, \* stats.activeConnections
    sp_failedConnections, \* stats.failedConnections
    sp_reconnect,         \* pending reconnect timers, by endpoint name
    sp_settle,            \* pending 10 s timers of restoreQuality (they fire in order)
    sp_stops,             \* stop() calls awaiting their 2 s timer
    sp_scenario,          \* history: "fallback" after fallbackQuality(), "restored"
                          \* when restoreQuality() was the next call, "settled" once
                          \* the timer of that restoreQuality() has fired
    sp_mark,              \* history: how many settle timers fire up to that timer
    sp_streak,            \* history: exits of the primary's subprocesses in a row,
                          \* each with the publisher running and the endpoint active,
                          \* since the last connection
    sp_early,             \* by endpoint name, how many of its pending reconnect
                          \* timers were armed before the oldest pending stop():
                          \* they have its delay and fire before its timer does
    sp_lastDelay          \* history: the delay of the reconnect timer armed at the
                          \* latest of the exits counted by sp_streak, 0 when none

spVars == <<sp_isRunning, sp_active, sp_procs, sp_publishers, sp_activeConnections,
            sp_failedConnections, sp_reconnect, sp_settle, sp_stops, sp_scenario,
            sp_mark, sp_streak, sp_early, sp_lastDelay>>

\* Part VII: the log lines of one spawn, computed for two stream keys
VARIABLES
    lg_rtmpUrl,          \* RTMP_URL
    lg_videoUrl,         \* VIDEO_URL / the playlist path
    lg_keys,             \* the two values of STREAM_KEY compared
    lg_restartAttempts,  \* restartAttempts of the supervisor
    lg_priority,         \* endpoint.priority
    lg_fn,               \* "none", or the function that has logged
    lg_logs              \* what it logged with the first and with the second key

lgVars == <<lg_rtmpUrl, lg_videoUrl, lg_keys, lg_restartAttempts, lg_priority,
            lg_fn, lg_logs>>

msVars == <<ms_envOK, systemStatus, ms_lastError, ms_startTime, healthMonitor,
            ms_intervals, streamFetcher, streamPublisher, ms_calls, ms_lastRequest,
            ms_reconnects, ms_fallbacks, ms_lastTick>>

sfVars == <<sf_maxCacheSize, sf_segmentDuration, sf_segments, sf_files, sf_checkpoint,
            sf_isRunning, sf_fileWatcher, sf_procs, sf_restartTimers, sf_nextId,
            sf_stats, sf_delayed, sf_evicted, sf_lastOp>>

boVars == <<bo_variant, bo_n, bo_m, bo_dn, bo_dm, bo_pc>>

prVars == <<pr_streamProcess, pr_streamStatus, pr_lastError, pr_startTime,
            pr_restartAttempts, currentPosition, lastStablePosition, totalStreamTime,
            sessionStartPosition, pr_timers, pr_lastTimeout, pr_procs, pr_envOK>>

eofVars == <<streamProcess, streamStatus, lastError, startTime, lastStderr,
             sinceLastEOFRestart, restartAttempts, restartDelay, intentionalStop,
             timers, lastTimeout, procs, envOK, stopIdle, stopExit>>

\* what the actions of one part leave alone
NotEof == <<boVars, prVars, sfVars, msVars, spVars, lgVars>>

NotBackoff == <<eofVars, prVars, sfVars, msVars, spVars, lgVars>>

NotResume == <<boVars, eofVars, sfVars, msVars, spVars, lgVars>>

NotFetcher == <<boVars, eofVars, prVars, msVars, spVars, lgVars>>

NotSystem == <<boVars, eofVars, prVars, sfVars, spVars, lgVars>>

NotPublisher == <<boVars, eofVars, prVars, sfVars, msVars, lgVars>>

NotLog == <<boVars, eofVars, prVars, sfVars, msVars, spVars>>

(***************************************************************************)
(* Timers.  kind: "auto" (listen callback), "backoff" (scheduleRestart),   *)
(* "eof" (close handler), "restart" (POST /restart), "stable" (stderr      *)
(* handler).  owner is history for a "stable" timer: the child whose       *)
(* connection armed it, NoProc once that child has exited.                 *)
(***************************************************************************)
Timer(k, o) == [kind |-> k, owner |-> o]

Timeout(k, d) == [kind |-> k, delay |-> d]

Arm(B, t) == B (+) SetToBag({t})

Disarm(B, t) == B (-) SetToBag({t})

\* the child in slot s has exited: its stabilization timer stays pending
Orphan(B, s) ==
    LET own == {t \in BagToSet(B) : t.owner = s}
    IN  IF own = {} THEN B
        ELSE LET t == CHOOSE x \in own : TRUE
             IN  Arm(Disarm(B, t), [t EXCEPT !.owner = NoProc])

NoChild == [st |-> "free", isConnected |-> FALSE]

\* A child is "run" (spawned, not yet closed), "nospawn" (the spawn failed and
\* its 'error' event is queued with process.nextTick), "closing" (the spawn
\* failed, 'error' was delivered and 'close' follows) or "free".  After a
\* failed spawn the runtime emits 'error' and then 'close' (with the negative
\* errno as code) from one nextTick callback, which runs before the event
\* loop takes up any other event: both handlers run before anything else.
Urgent(P) == \E s \in Procs : P[s].st \in {"nospawn", "closing"}

Settled == ~Urgent(procs)

(***************************************************************************)
(* Part II.  The backoff delay (used by Part I and Part III).              *)
(***************************************************************************)
\* min(d * (num/den)^k, cap) for a factor num/den >= 1, in microseconds.
\* The product saturates at cap as soon as it reaches it, which keeps every
\* intermediate value inside the integers of the model checker.
RECURSIVE Grow(_, _, _, _, _)
Grow(d, num, den, k, cap) ==
    IF d >= cap THEN cap
    ELSE IF k = 0 THEN d
    ELSE Grow((d * num) \div den, num, den, k - 1, cap)

\* variant of BackoffDelay bounded by the other supervisor's cap of 300 s
BackoffDelay_OtherCap(delay, attempts) ==
    Grow(Us(delay), 3, 2, attempts - 1, Us(300000))

\* variant of BackoffDelay that doubles the delay at each attempt
BackoffDelay_Doubling(delay, attempts) ==
    Grow(Us(delay), 2, 1, attempts - 1, Us(maxRestartDelay))

\* scheduleRestart: Math.min(restartDelay * Math.pow(1.5, restartAttempts - 1),
\* maxRestartDelay), with restartAttempts already incremented
BackoffDelay(delay, attempts) ==
    Grow(Us(delay), 3, 2, attempts - 1, Us(maxRestartDelay))

(***************************************************************************)
(* Part I.  Operations of the EOF-aware supervisor.                        *)
(***************************************************************************)
OtherParts == UNCHANGED NotEof

\* lastStderr += output; lastStderr = lastStderr.slice(-1000)
Keep(q) ==
    IF Len(q) > StderrKeep THEN SubSeq(q, Len(q) - StderrKeep + 1, Len(q)) ELSE q

\* variant of isEOF that looks for a marker whatever the nonzero code
isEOF_AnyCode(code, stderr) ==
    IF code = 0 THEN TRUE
    ELSE \E i \in 1..Len(stderr) : stderr[i] = "eof"

\* isEOF of the close handler
isEOF(code, stderr) ==
    IF code = 0 THEN TRUE
    ELSE IF code = 1 THEN \E i \in 1..Len(stderr) : stderr[i] = "eof"
    ELSE FALSE

\* variant of EofMinDelay without the rate limit
EofMinDelay_NoRateLimit(since) == EofDelayNormal

\* minDelay of the close handler: (now - lastEOFRestart < 10000) ? 3000 : 1000
EofMinDelay(since) ==
    IF since < EofWindow THEN EofDelayFrequent ELSE EofDelayNormal

Pending == BagToSet(timers)

Free == {s \in Procs : procs[s].st = "free"}

\* variant of StartStream that restarts its bookkeeping when a child exists
StartStream_Rearm(stderrIn) ==
    IF streamProcess # NoProc
    THEN /\ lastStderr' = stderrIn
         /\ startTime' = "date"
         /\ streamStatus' = "starting"
         /\ lastError' = "null"
         /\ UNCHANGED <<streamProcess, procs>>
    ELSE IF ~envOK
    THEN /\ lastError' = "env"
         /\ streamStatus' = "error"
         /\ lastStderr' = stderrIn
         /\ UNCHANGED <<streamProcess, procs, startTime>>
    ELSE \E s \in Free, st \in {"run", "nospawn"} :
         /\ lastStderr' = <<>>
         /\ procs' = [procs EXCEPT ![s] = [st |-> st, isConnected |-> FALSE]]
         /\ streamProcess' = s
         /\ startTime' = "date"
         /\ streamStatus' = "starting"
         /\ lastError' = "null"

\* startStream(), entered with lastStderr = stderrIn.  It assigns the process
\* handle, the child table, the status, lastError, startTime and lastStderr.
StartStream(stderrIn) ==
    IF streamProcess # NoProc
    THEN /\ lastStderr' = stderrIn
         /\ UNCHANGED <<streamProcess, procs, streamStatus, lastError, startTime>>
    ELSE IF ~envOK
    THEN /\ lastError' = "env"
         /\ streamStatus' = "error"
         /\ lastStderr' = stderrIn
         /\ UNCHANGED <<streamProcess, procs, startTime>>
    ELSE \E s \in Free, st \in {"run", "nospawn"} :
         /\ lastStderr' = <<>>
         /\ procs' = [procs EXCEPT ![s] = [st |-> st, isConnected |-> FALSE]]
         /\ streamProcess' = s
         /\ startTime' = "date"
         /\ streamStatus' = "starting"
         /\ lastError' = "null"

\* variant of ScheduleRestart that gives up one attempt late
ScheduleRestart_LateGiveUp(B) ==
    IF restartAttempts > maxRestartAttempts
    THEN /\ streamStatus' = "failed"
         /\ timers' = B
         /\ UNCHANGED <<restartAttempts, lastTimeout>>
    ELSE /\ BagCardinality(B) < MaxTimers
         /\ streamStatus' = "error"
         /\ restartAttempts' = restartAttempts + 1
         /\ timers' = Arm(B, Timer("backoff", NoProc))
         /\ lastTimeout' = Timeout("backoff",
                                   BackoffDelay(restartDelay, restartAttempts + 1))

\* scheduleRestart(), called with streamStatus = 'error' and pending timers B.
\* It assigns the status, restartAttempts, the timers and lastTimeout.
ScheduleRestart(B) ==
    IF restartAttempts >= maxRestartAttempts
    THEN /\ streamStatus' = "failed"
         /\ timers' = B
         /\ UNCHANGED <<restartAttempts, lastTimeout>>
    ELSE /\ BagCardinality(B) < MaxTimers
         /\ streamStatus' = "error"
         /\ restartAttempts' = restartAttempts + 1
         /\ timers' = Arm(B, Timer("backoff", NoProc))
         /\ lastTimeout' = Timeout("backoff",
                                   BackoffDelay(restartDelay, restartAttempts + 1))

\* variant of EofRestart that arms no timer
EofRestart_NoTimer(B) ==
    /\ timers' = B
    /\ sinceLastEOFRestart' = 0
    /\ UNCHANGED lastTimeout

\* the EOF branch of the close handler (lines 272-280 and 290-298)
EofRestart(B) ==
    /\ BagCardinality(B) < MaxTimers
    /\ timers' = Arm(B, Timer("eof", NoProc))
    /\ lastTimeout' = Timeout("eof", Us(EofMinDelay(sinceLastEOFRestart)))
    /\ sinceLastEOFRestart' = 0

\* variant of stopStream that reports 'stopped' as soon as it has signalled
\* the child
StopStream_StatusAtOnce ==
    IF streamProcess # NoProc
    THEN /\ intentionalStop' = TRUE
         /\ restartAttempts' = 0
         /\ streamStatus' = "stopped"
         /\ UNCHANGED startTime
    ELSE /\ streamStatus' = "stopped"
         /\ startTime' = "null"
         /\ UNCHANGED <<intentionalStop, restartAttempts>>

\* stopStream().  It assigns intentionalStop, restartAttempts, the status and
\* startTime; kill('SIGTERM') leaves the handle in place.
StopStream ==
    IF streamProcess # NoProc
    THEN /\ intentionalStop' = TRUE
         /\ restartAttempts' = 0
         /\ UNCHANGED <<streamStatus, startTime>>
    ELSE /\ streamStatus' = "stopped"
         /\ startTime' = "null"
         /\ UNCHANGED <<intentionalStop, restartAttempts>>

RestartTimerPending == \E t \in Pending : t.kind \in {"backoff", "eof"}

\* POST /start
StartRequest ==
    /\ Settled
    /\ restartAttempts' = 0
    /\ StartStream(lastStderr)
    /\ stopIdle' = FALSE
    /\ stopExit' = FALSE
    /\ UNCHANGED <<sinceLastEOFRestart, restartDelay, intentionalStop, timers,
                   lastTimeout, envOK>>
    /\ OtherParts

\* POST /stop
StopRequest ==
    /\ Settled
    /\ StopStream
    /\ stopIdle' = (stopIdle \/ (streamProcess = NoProc /\ RestartTimerPending))
    /\ UNCHANGED <<streamProcess, procs, lastError, lastStderr, sinceLastEOFRestart,
                   restartDelay, timers, lastTimeout, envOK, stopExit>>
    /\ OtherParts

\* POST /restart: stopStream(); setTimeout(() => startStream(), 2000)
RestartRequest ==
    /\ Settled
    /\ BagCardinality(timers) < MaxTimers
    /\ StopStream
    /\ timers' = Arm(timers, Timer("restart", NoProc))
    /\ lastTimeout' = Timeout("restart", Us(RestartRequestDelay))
    /\ stopIdle' = FALSE
    /\ stopExit' = FALSE
    /\ UNCHANGED <<streamProcess, procs, lastError, lastStderr, sinceLastEOFRestart,
                   restartDelay, envOK>>
    /\ OtherParts

\* a pending timer's callback runs
FireTimer(t) ==
    /\ Settled
    /\ t \in Pending
    /\ timers' = Disarm(timers, t)
    /\ CASE t.kind \in {"auto", "backoff", "restart"} ->
              /\ StartStream(lastStderr)
              /\ UNCHANGED <<restartAttempts, restartDelay>>
         [] t.kind = "eof" ->
              /\ StartStream(<<>>)
              /\ UNCHANGED <<restartAttempts, restartDelay>>
         [] t.kind = "stable" ->
              /\ IF streamStatus = "streaming"
                 THEN /\ restartAttempts' = 0
                      /\ restartDelay' = InitialRestartDelay
                 ELSE UNCHANGED <<restartAttempts, restartDelay>>
              /\ UNCHANGED <<streamProcess, procs, streamStatus, lastError,
                             startTime, lastStderr>>
    /\ stopIdle' = (stopIdle /\ streamProcess' = streamProcess)
    /\ stopExit' = (stopExit /\ streamProcess' = streamProcess)
    /\ UNCHANGED <<sinceLastEOFRestart, intentionalStop, lastTimeout, envOK>>
    /\ OtherParts

\* streamProcess.stderr.on('data') of child s
Stderr(s, chunk) ==
    /\ Settled
    /\ procs[s].st = "run"
    /\ lastStderr' = Keep(Append(lastStderr, chunk))
    /\ IF chunk = "fps" /\ ~procs[s].isConnected
       THEN /\ BagCardinality(timers) < MaxTimers
            /\ procs' = [procs EXCEPT ![s].isConnected = TRUE]
            /\ streamStatus' = "streaming"
            /\ timers' = Arm(timers, Timer("stable", s))
            /\ lastTimeout' = Timeout("stable", Us(StabilizationDelay))
       ELSE UNCHANGED <<procs, streamStatus, timers, lastTimeout>>
    /\ UNCHANGED <<streamProcess, lastError, startTime, sinceLastEOFRestart,
                   restartAttempts, restartDelay, intentionalStop, envOK,
                   stopIdle, stopExit>>
    /\ OtherParts

\* streamProcess.on('close') of child s with exit code `code`
Close(s, code) ==
    /\ \/ Settled /\ procs[s].st = "run" /\ code \in ExitCodes
       \/ procs[s].st = "closing" /\ code = SpawnFailCode
    /\ streamProcess' = NoProc
    /\ procs' = [procs EXCEPT ![s] = NoChild]
    /\ IF intentionalStop
       THEN /\ streamStatus' = "stopped"
            /\ restartAttempts' = 0
            /\ restartDelay' = InitialRestartDelay
            /\ intentionalStop' = FALSE
            /\ timers' = Orphan(timers, s)
            /\ stopExit' = TRUE
            /\ UNCHANGED <<lastError, sinceLastEOFRestart, lastTimeout>>
       ELSE IF code # 0
       THEN /\ lastError' = "exit"
            /\ IF isEOF(code, lastStderr)
               THEN /\ streamStatus' = "error"
                    /\ EofRestart(Orphan(timers, s))
                    /\ UNCHANGED restartAttempts
               ELSE /\ ScheduleRestart(Orphan(timers, s))
                    /\ UNCHANGED sinceLastEOFRestart
            /\ UNCHANGED <<restartDelay, intentionalStop, stopExit>>
       ELSE /\ streamStatus' = "error"
            /\ lastError' = "eof"
            /\ EofRestart(Orphan(timers, s))
            /\ UNCHANGED <<restartAttempts, restartDelay, intentionalStop, stopExit>>
    /\ UNCHANGED <<startTime, lastStderr, envOK, stopIdle>>
    /\ OtherParts

\* streamProcess.on('error') of child s: the spawn failed
Error(s) ==
    /\ procs[s].st = "nospawn"
    /\ procs' = [procs EXCEPT ![s].st = "closing"]
    /\ lastError' = "spawn"
    /\ streamProcess' = NoProc
    /\ ScheduleRestart(timers)
    /\ UNCHANGED <<startTime, lastStderr, sinceLastEOFRestart, restartDelay,
                   intentionalStop, envOK, stopIdle, stopExit>>
    /\ OtherParts

\* the clock advances by one step (Date.now() grows)
Tick ==
    /\ Settled
    /\ sinceLastEOFRestart < EofWindow
    /\ sinceLastEOFRestart' =
           IF sinceLastEOFRestart + EofWindow \div ClockSteps >= EofWindow
           THEN EofWindow
           ELSE sinceLastEOFRestart + EofWindow \div ClockSteps
    /\ UNCHANGED <<streamProcess, streamStatus, lastError, startTime, lastStderr,
                   restartAttempts, restartDelay, intentionalStop, timers,
                   lastTimeout, procs, envOK, stopIdle, stopExit>>
    /\ OtherParts

\* the state after app.listen's callback: lastEOFRestart = 0 lies far in the
\* past, the auto-start timer is pending
EofInit ==
    /\ streamProcess = NoProc
    /\ streamStatus = "stopped"
    /\ lastError = "null"
    /\ startTime = "null"
    /\ lastStderr = <<>>
    /\ sinceLastEOFRestart = EofWindow
    /\ restartAttempts = 0
    /\ restartDelay = InitialRestartDelay
    /\ intentionalStop = FALSE
    /\ timers = SetToBag({Timer("auto", NoProc)})
    /\ lastTimeout = Timeout("auto", Us(AutoStartDelay))
    /\ procs = [s \in Procs |-> NoChild]
    /\ envOK \in BOOLEAN
    /\ stopIdle = FALSE
    /\ stopExit = FALSE

(***************************************************************************)
(* Part III.  Position-resume supervisor (src/server.js, lines 512-898).   *)
(* Program constants in milliseconds, positions in centiseconds.           *)
(***************************************************************************)
pr_maxRestartAttempts == 10
baseRestartDelay == 5000
pr_maxRestartDelay == 300000
PrStabilizationDelay == 30000
PrRestartRequestDelay == 1000
PrAutoStartDelay == 5000
\* "Save as stable position every 3 seconds of progress"
CheckpointStep == 3

\* scheduleRestart: Math.min(baseRestartDelay * Math.pow(2, restartAttempts - 1),
\* maxRestartDelay), with restartAttempts already incremented
PrBackoffDelay(attempts) ==
    Grow(Us(baseRestartDelay), 2, 1, attempts - 1, Us(pr_maxRestartDelay))

Null == -1
NoSeek == -1
NoToken == [h |-> 0, m |-> 0, s |-> 0, sep |-> "none", cs |-> 0]

\* time= tokens of a stderr chunk: two digits each for hours, minutes, seconds
\* and centiseconds; sep is what stands between the seconds and the
\* centiseconds: "." as ffmpeg prints it, or a backslash followed by a character.
TimeTokens ==
    {[h |-> 0, m |-> 0, s |-> t[1], sep |-> sep, cs |-> t[2]] :
        t \in {<<0, 0>>, <<1, 50>>, <<3, 0>>}, sep \in {".", "\\."}}

\* a stderr chunk: its time= token if any, and whether it holds "fps=" or
\* "Stream mapping:"
PrChunks == [time : TimeTokens \cup {NoToken}, fps : BOOLEAN]

\* parsePosition: the pattern /time=([0-9]{2}):([0-9]{2}):([0-9]{2})\\.([0-9]{2})/
\* asks for a backslash and one more character before the centiseconds
parsePosition(tok) ==
    IF tok.sep = "\\."
    THEN (tok.h * 3600 + tok.m * 60 + tok.s) * 100 + tok.cs
    ELSE Null

\* formatTimeForFFmpeg: whole seconds of the position
formatTimeForFFmpeg(pos) == pos \div 100

PrPending == BagToSet(pr_timers)

PrFree == {s \in Procs : pr_procs[s].st = "free"}

PrNoChild == [st |-> "free", seek |-> NoSeek]

PrSettled == ~Urgent(pr_procs)

\* startStream().  It assigns the handle, the child table, the status,
\* lastError, startTime and sessionStartPosition.
PrStartStream(attempts) ==
    IF pr_streamProcess # NoProc
    THEN UNCHANGED <<pr_streamProcess, pr_procs, pr_streamStatus, pr_lastError,
                     pr_startTime, sessionStartPosition>>
    ELSE IF ~pr_envOK
    THEN /\ pr_lastError' = "env"
         /\ pr_streamStatus' = "error"
         /\ UNCHANGED <<pr_streamProcess, pr_procs, pr_startTime, sessionStartPosition>>
    ELSE LET resumePosition == IF attempts > 0 THEN lastStablePosition ELSE 0
         IN  \E s \in PrFree, st \in {"run", "nospawn"} :
             /\ sessionStartPosition' = resumePosition
             /\ pr_procs' = [pr_procs EXCEPT ![s] =
                    [st |-> st,
                     seek |-> IF resumePosition > 0
                              THEN formatTimeForFFmpeg(resumePosition)
                              ELSE NoSeek]]
             /\ pr_streamProcess' = s
             /\ pr_startTime' = "date"
             /\ pr_streamStatus' = "starting"
             /\ pr_lastError' = "null"

\* shouldRestartStream(exitCode)
shouldRestartStream(code) == pr_restartAttempts < pr_maxRestartAttempts

\* scheduleRestart().  It assigns restartAttempts, the timers and pr_lastTimeout.
PrScheduleRestart ==
    /\ BagCardinality(pr_timers) < MaxTimers
    /\ pr_restartAttempts' = pr_restartAttempts + 1
    /\ pr_timers' = Arm(pr_timers, Timer("backoff", NoProc))
    /\ pr_lastTimeout' = Timeout("backoff", PrBackoffDelay(pr_restartAttempts + 1))

\* stopStream().  It assigns the handle, the status, startTime and
\* restartAttempts; the killed child stays in the child table until it closes.
PrStopStream ==
    IF pr_streamProcess # NoProc
    THEN /\ pr_streamProcess' = NoProc
         /\ pr_streamStatus' = "stopped"
         /\ pr_startTime' = "null"
         /\ pr_restartAttempts' = 0
    ELSE UNCHANGED <<pr_streamProcess, pr_streamStatus, pr_startTime, pr_restartAttempts>>

PrPositions == <<currentPosition, lastStablePosition, totalStreamTime>>

\* POST /start
PrStartRequest ==
    /\ PrSettled
    /\ pr_restartAttempts' = 0
    /\ PrStartStream(0)
    /\ UNCHANGED <<PrPositions, pr_timers, pr_lastTimeout, pr_envOK>>
    /\ UNCHANGED NotResume

\* POST /stop
PrStopRequest ==
    /\ PrSettled
    /\ PrStopStream
    /\ UNCHANGED <<pr_lastError, PrPositions, sessionStartPosition, pr_timers,
                   pr_lastTimeout, pr_procs, pr_envOK>>
    /\ UNCHANGED NotResume

\* POST /restart: stopStream(); setTimeout(() => startStream(), 1000)
PrRestartRequest ==
    /\ PrSettled
    /\ BagCardinality(pr_timers) < MaxTimers
    /\ PrStopStream
    /\ pr_timers' = Arm(pr_timers, Timer("restart", NoProc))
    /\ pr_lastTimeout' = Timeout("restart", Us(PrRestartRequestDelay))
    /\ UNCHANGED <<pr_lastError, PrPositions, sessionStartPosition, pr_procs, pr_envOK>>
    /\ UNCHANGED NotResume

\* POST /reset-position: resetPosition()
PrResetPosition ==
    /\ PrSettled
    /\ currentPosition' = 0
    /\ lastStablePosition' = 0
    /\ totalStreamTime' = 0
    /\ sessionStartPosition' = 0
    /\ UNCHANGED <<pr_streamProcess, pr_streamStatus, pr_lastError, pr_startTime,
                   pr_restartAttempts, pr_timers, pr_lastTimeout, pr_procs, pr_envOK>>
    /\ UNCHANGED NotResume

\* a pending timer's callback runs
PrFireTimer(t) ==
    /\ PrSettled
    /\ t \in PrPending
    /\ pr_timers' = Disarm(pr_timers, t)
    /\ IF t.kind = "stable"
       THEN \* resetRestartAttempts() while the status is 'streaming'
            /\ pr_restartAttempts' =
                   IF pr_streamStatus = "streaming" THEN 0 ELSE pr_restartAttempts
            /\ UNCHANGED <<pr_streamProcess, pr_procs, pr_streamStatus, pr_lastError,
                           pr_startTime, sessionStartPosition>>
       ELSE /\ PrStartStream(pr_restartAttempts)
            /\ UNCHANGED pr_restartAttempts
    /\ UNCHANGED <<PrPositions, pr_lastTimeout, pr_envOK>>
    /\ UNCHANGED NotResume

\* variant of updatePosition that takes the offset within the session for
\* the position in the video and checkpoints it at once
updatePosition_SessionOffset(newPosition) ==
    IF newPosition # Null /\ newPosition # 0 /\ newPosition >= 0
    THEN /\ currentPosition' = newPosition
         /\ lastStablePosition' = newPosition
         /\ totalStreamTime' = newPosition
    ELSE UNCHANGED PrPositions

\* updatePosition(newPosition).  It assigns the three positions.
updatePosition(newPosition) ==
    IF newPosition # Null /\ newPosition # 0 /\ newPosition >= 0
    THEN LET actualPosition == sessionStartPosition + newPosition
         IN  /\ actualPosition <= MaxPosition
             /\ currentPosition' = actualPosition
             /\ IF actualPosition - lastStablePosition >= CheckpointStep * 100
                THEN /\ lastStablePosition' = actualPosition
                     /\ totalStreamTime' = actualPosition
                ELSE UNCHANGED <<lastStablePosition, totalStreamTime>>
    ELSE UNCHANGED PrPositions

\* streamProcess.stderr.on('data') of child s
PrStderr(s, chunk) ==
    /\ PrSettled
    /\ pr_procs[s].st = "run"
    /\ updatePosition(parsePosition(chunk.time))
    /\ IF chunk.fps /\ pr_streamStatus = "starting"
       THEN /\ BagCardinality(pr_timers) < MaxTimers
            /\ pr_streamStatus' = "streaming"
            /\ pr_timers' = Arm(pr_timers, Timer("stable", NoProc))
            /\ pr_lastTimeout' = Timeout("stable", Us(PrStabilizationDelay))
       ELSE UNCHANGED <<pr_streamStatus, pr_timers, pr_lastTimeout>>
    /\ UNCHANGED <<pr_streamProcess, pr_lastError, pr_startTime, pr_restartAttempts,
                   sessionStartPosition, pr_procs, pr_envOK>>
    /\ UNCHANGED NotResume

\* streamProcess.on('close') of child s with exit code `code`
PrClose(s, code) ==
    /\ \/ PrSettled /\ pr_procs[s].st = "run" /\ code \in ExitCodes
       \/ pr_procs[s].st = "closing" /\ code = SpawnFailCode
    /\ pr_streamProcess' = NoProc
    /\ pr_procs' = [pr_procs EXCEPT ![s] = PrNoChild]
    /\ IF code # 0
       THEN /\ pr_lastError' = "exit"
            /\ IF shouldRestartStream(code)
               THEN /\ pr_streamStatus' = "error"
                    /\ PrScheduleRestart
               ELSE /\ pr_streamStatus' = "failed"
                    /\ UNCHANGED <<pr_restartAttempts, pr_timers, pr_lastTimeout>>
       ELSE /\ pr_streamStatus' = "stopped"
            /\ pr_restartAttempts' = 0
            /\ UNCHANGED <<pr_lastError, pr_timers, pr_lastTimeout>>
    /\ UNCHANGED <<pr_startTime, PrPositions, sessionStartPosition, pr_envOK>>
    /\ UNCHANGED NotResume

\* streamProcess.on('error') of child s: the spawn failed
PrError(s) ==
    /\ pr_procs[s].st = "nospawn"
    /\ pr_restartAttempts < AttemptsCap
    /\ pr_procs' = [pr_procs EXCEPT ![s].st = "closing"]
    /\ pr_streamStatus' = "error"
    /\ pr_lastError' = "spawn"
    /\ pr_streamProcess' = NoProc
    /\ PrScheduleRestart
    /\ UNCHANGED <<pr_startTime, PrPositions, sessionStartPosition, pr_envOK>>
    /\ UNCHANGED NotResume

\* the state after app.listen's callback: the auto-start timer is pending
PrInit ==
    /\ pr_streamProcess = NoProc
    /\ pr_streamStatus = "stopped"
    /\ pr_lastError = "null"
    /\ pr_startTime = "null"
    /\ pr_restartAttempts = 0
    /\ currentPosition = 0
    /\ lastStablePosition = 0
    /\ totalStreamTime = 0
    /\ sessionStartPosition = 0
    /\ pr_timers = SetToBag({Timer("auto", NoProc)})
    /\ pr_lastTimeout = Timeout("auto", Us(PrAutoStartDelay))
    /\ pr_procs = [s \in Procs |-> PrNoChild]
    /\ pr_envOK \in BOOLEAN

PrNext ==
    \/ PrStartRequest
    \/ PrStopRequest
    \/ PrRestartRequest
    \/ PrResetPosition
    \/ \E t \in PrPending : PrFireTimer(t)
    \/ \E s \in Procs, chunk \in PrChunks : PrStderr(s, chunk)
    \/ \E s \in Procs, code \in ExitCodes \cup {SpawnFailCode} : PrClose(s, code)
    \/ \E s \in Procs : PrError(s)

(***************************************************************************)
(* Part IV.  StreamFetcher (src/src/stream-fetcher.js) with the cache       *)
(* directory and the segment-generation subprocess that writes into it.    *)
(***************************************************************************)
\* saveCheckpoint runs when segmentId % 100 === 0
CheckpointEvery == 100
\* the hls muxer keeps one segment beyond the playlist before it unlinks
HlsDeleteThreshold == 1

SegIds == 0..MaxSegId

NoCheckpoint == [present |-> FALSE, segments |-> <<>>]

\* the configurations tried: (maxCacheSize in s, segmentDuration in tenths of
\* a second): 1 s / 1.0 s (one segment) and 1 s / 0.8 s (two segments)
FetcherConfigs == {<<1, 10>>, <<1, 8>>}

\* Math.ceil(this.maxCacheSize / this.segmentDuration)
maxSegments == (sf_maxCacheSize * 10 + sf_segmentDuration - 1) \div sf_segmentDuration

Smallest(S) == CHOOSE x \in S : \A y \in S : x <= y

Largest(S) == CHOOSE x \in S : \A y \in S : x >= y

\* sortedSegments.slice(0, sortedSegments.length - maxSegments) removed
RECURSIVE DropOldest(_, _)
DropOldest(S, n) ==
    IF Cardinality(S) <= n THEN S ELSE DropOldest(S \ {Smallest(S)}, n)

\* variant of cleanupOldSegments that keeps one id beyond the window
cleanupOldSegments_OneMore(S) == DropOldest(S, maxSegments + 1)

\* variant of cleanupOldSegments that removes the newest ids
cleanupOldSegments_KeepOldest(S) ==
    {x \in S : Cardinality({y \in S : y < x}) < maxSegments}

\* cleanupOldSegments(): the ids that stay tracked out of the tracked ids S
cleanupOldSegments(S) == DropOldest(S, maxSegments)

\* getAvailableSegments()
getAvailableSegments == DOMAIN sf_segments

\* getSegment(segmentId): the entry, ready or not; absent ids have none
getSegment(segmentId) == sf_segments[segmentId]

\* saveCheckpoint(): the file written from the map M
saveCheckpoint(M) == [present |-> TRUE, segments |-> M]

\* loadCheckpoint(): entries whose file is accessible are set into the map
loadCheckpoint ==
    IF sf_checkpoint.present
    THEN LET ok == {id \in DOMAIN sf_checkpoint.segments : id \in sf_files}
         IN  [id \in DOMAIN sf_segments \cup ok |->
                 IF id \in ok THEN sf_checkpoint.segments[id] ELSE sf_segments[id]]
    ELSE sf_segments

\* initialize(): mkdir, loadCheckpoint.  mkdirOk: fs.mkdir succeeds; readable:
\* fs.readFile and JSON.parse of an existing checkpoint succeed.  Only a failed
\* mkdir reaches the catch of initialize() (return false, lastError set);
\* loadCheckpoint catches its own errors and sets nothing then.
SfInitialize ==
    /\ \E mkdirOk, readable \in BOOLEAN :
          IF ~mkdirOk
          THEN /\ UNCHANGED sf_segments
               /\ sf_lastOp' = "initializeFailed"
          ELSE IF sf_checkpoint.present /\ readable
          THEN /\ sf_segments' = loadCheckpoint
               /\ sf_lastOp' = "initialize"
          ELSE /\ UNCHANGED sf_segments
               /\ sf_lastOp' = "initializeFresh"
    /\ UNCHANGED <<sf_maxCacheSize, sf_segmentDuration, sf_files, sf_checkpoint,
                   sf_isRunning, sf_fileWatcher, sf_procs, sf_restartTimers,
                   sf_nextId, sf_stats, sf_delayed, sf_evicted>>
    /\ UNCHANGED NotFetcher

\* generateSegments(): spawn the segmenter, whose start number continues the
\* playlist or lies ahead of it; startFileSystemMonitoring()
generateSegments ==
    /\ sf_procs < MaxSegProcs
    /\ sf_procs' = sf_procs + 1
    /\ \E gap \in {0, StartNumberGap} :
           /\ sf_nextId + gap <= MaxSegId + 1
           /\ sf_nextId' = sf_nextId + gap
    /\ sf_fileWatcher' = TRUE

\* start()
SfStart ==
    /\ IF sf_isRunning
       THEN UNCHANGED <<sf_isRunning, sf_procs, sf_nextId, sf_fileWatcher>>
       ELSE /\ sf_isRunning' = TRUE
            /\ generateSegments
    /\ UNCHANGED <<sf_maxCacheSize, sf_segmentDuration, sf_segments, sf_files,
                   sf_checkpoint, sf_restartTimers, sf_stats, sf_delayed, sf_evicted>>
    /\ UNCHANGED NotFetcher
    /\ sf_lastOp' = "start"

\* stop()
SfStop ==
    /\ sf_isRunning' = FALSE
    /\ sf_fileWatcher' = FALSE
    /\ sf_checkpoint' = saveCheckpoint(sf_segments)
    /\ UNCHANGED <<sf_maxCacheSize, sf_segmentDuration, sf_segments, sf_files,
                   sf_procs, sf_restartTimers, sf_nextId, sf_stats, sf_delayed,
                   sf_evicted>>
    /\ UNCHANGED NotFetcher
    /\ sf_lastOp' = "stop"

\* segmentProcess.on('close')
SfClose ==
    /\ sf_procs > 0
    /\ sf_procs' = sf_procs - 1
    /\ sf_restartTimers' = IF sf_isRunning THEN sf_restartTimers + 1 ELSE sf_restartTimers
    /\ sf_restartTimers' <= MaxSegProcs
    /\ UNCHANGED <<sf_maxCacheSize, sf_segmentDuration, sf_segments, sf_files,
                   sf_checkpoint, sf_isRunning, sf_fileWatcher, sf_nextId, sf_stats,
                   sf_delayed, sf_evicted>>
    /\ UNCHANGED NotFetcher
    /\ sf_lastOp' = "event"

\* the callback of setTimeout(() => this.generateSegments(), delay)
SfRestartFires ==
    /\ sf_restartTimers > 0
    /\ sf_restartTimers' = sf_restartTimers - 1
    /\ generateSegments
    /\ UNCHANGED <<sf_maxCacheSize, sf_segmentDuration, sf_segments, sf_files,
                   sf_checkpoint, sf_isRunning, sf_stats, sf_delayed, sf_evicted>>
    /\ UNCHANGED NotFetcher
    /\ sf_lastOp' = "event"

\* the segmenter writes its next segment file
SfWriteSegment ==
    /\ sf_procs > 0
    /\ sf_nextId <= MaxSegId
    /\ sf_files' = sf_files \cup {sf_nextId}
    /\ sf_nextId' = sf_nextId + 1
    /\ UNCHANGED <<sf_maxCacheSize, sf_segmentDuration, sf_segments, sf_checkpoint,
                   sf_isRunning, sf_fileWatcher, sf_procs, sf_restartTimers, sf_stats,
                   sf_delayed, sf_evicted>>
    /\ UNCHANGED NotFetcher
    /\ sf_lastOp' = "event"

\* the segmenter unlinks the oldest file of its rolling window
\* (-hls_flags delete_segments, -hls_list_size maxSegments)
SfDeleteSegment ==
    /\ sf_procs > 0
    /\ Cardinality(sf_files) > maxSegments + HlsDeleteThreshold
    /\ sf_files' = sf_files \ {Smallest(sf_files)}
    /\ UNCHANGED <<sf_maxCacheSize, sf_segmentDuration, sf_segments, sf_checkpoint,
                   sf_isRunning, sf_fileWatcher, sf_procs, sf_restartTimers, sf_nextId,
                   sf_stats, sf_delayed, sf_evicted>>
    /\ UNCHANGED NotFetcher
    /\ sf_lastOp' = "event"

InFlight == Cardinality(sf_stats) + Cardinality(sf_delayed)

\* segmentProcess.stderr.on('data') for a chunk naming segment_<id>.ts (the
\* segment just written or the one being opened), with or without the word
\* Opening: registerSegment(id) now and/or 100 ms later
SfStderr(id, opening) ==
    /\ sf_procs > 0
    /\ id \in {sf_nextId - 1, sf_nextId}
    /\ sf_stats' = IF opening THEN sf_stats \cup {id} ELSE sf_stats
    /\ sf_delayed' = sf_delayed \cup {id}
    /\ Cardinality(sf_stats') + Cardinality(sf_delayed') <= MaxStats
    /\ UNCHANGED <<sf_maxCacheSize, sf_segmentDuration, sf_segments, sf_files,
                   sf_checkpoint, sf_isRunning, sf_fileWatcher, sf_procs,
                   sf_restartTimers, sf_nextId, sf_evicted>>
    /\ UNCHANGED NotFetcher
    /\ sf_lastOp' = "event"

\* the 100 ms timer of the stderr handler fires: registerSegment(id) is called
SfDelayedFires(id) ==
    /\ id \in sf_delayed
    /\ sf_delayed' = sf_delayed \ {id}
    /\ sf_stats' = sf_stats \cup {id}
    /\ UNCHANGED <<sf_maxCacheSize, sf_segmentDuration, sf_segments, sf_files,
                   sf_checkpoint, sf_isRunning, sf_fileWatcher, sf_procs,
                   sf_restartTimers, sf_nextId, sf_evicted>>
    /\ UNCHANGED NotFetcher
    /\ sf_lastOp' = "event"

\* a turn of the file watcher: the interval clears itself when the fetcher is
\* stopped, else registerSegment(id) is called for a listed file that is not
\* tracked
SfWatcher ==
    /\ sf_fileWatcher
    /\ IF ~sf_isRunning
       THEN /\ sf_fileWatcher' = FALSE
            /\ UNCHANGED sf_stats
       ELSE /\ \E id \in sf_files \ DOMAIN sf_segments :
                   /\ id \notin sf_stats
                   /\ sf_stats' = sf_stats \cup {id}
            /\ InFlight < MaxStats
            /\ UNCHANGED sf_fileWatcher
    /\ UNCHANGED <<sf_maxCacheSize, sf_segmentDuration, sf_segments, sf_files,
                   sf_checkpoint, sf_isRunning, sf_procs, sf_restartTimers, sf_nextId,
                   sf_delayed, sf_evicted>>
    /\ UNCHANGED NotFetcher
    /\ sf_lastOp' = "event"

\* registerSegment(id) resumes after fs.stat: on success segments.set,
\* cleanupOldSegments and, every 100th id, saveCheckpoint; on failure nothing
registerSegment(id) ==
    /\ id \in sf_stats
    /\ sf_stats' = sf_stats \ {id}
    /\ IF id \in sf_files
       THEN LET kept == cleanupOldSegments(DOMAIN sf_segments \cup {id})
            IN  /\ sf_segments' = [x \in kept |-> IF x = id THEN TRUE ELSE sf_segments[x]]
                /\ sf_evicted' = Cardinality((DOMAIN sf_segments \cup {id}) \ kept)
                /\ sf_checkpoint' = IF id % CheckpointEvery = 0
                                    THEN saveCheckpoint(sf_segments')
                                    ELSE sf_checkpoint
       ELSE UNCHANGED <<sf_segments, sf_evicted, sf_checkpoint>>
    /\ UNCHANGED <<sf_maxCacheSize, sf_segmentDuration, sf_files, sf_isRunning,
                   sf_fileWatcher, sf_procs, sf_restartTimers, sf_nextId, sf_delayed>>
    /\ UNCHANGED NotFetcher
    /\ sf_lastOp' = "event"

\* the state after the constructor, with an empty cache directory
SfInit ==
    /\ \E c \in FetcherConfigs : sf_maxCacheSize = c[1] /\ sf_segmentDuration = c[2]
    /\ sf_segments = <<>>
    /\ sf_files = {}
    /\ sf_checkpoint = NoCheckpoint
    /\ sf_isRunning = FALSE
    /\ sf_fileWatcher = FALSE
    /\ sf_procs = 0
    /\ sf_restartTimers = 0
    /\ sf_nextId = 0
    /\ sf_stats = {}
    /\ sf_delayed = {}
    /\ sf_evicted = 0
    /\ sf_lastOp = "new"

SfIdle == SfInit /\ sf_segmentDuration = 10

SfNext ==
    \/ SfInitialize
    \/ SfStart
    \/ SfStop
    \/ SfClose
    \/ SfRestartFires
    \/ SfWriteSegment
    \/ SfDeleteSegment
    \/ \E id \in SegIds, opening \in BOOLEAN : SfStderr(id, opening)
    \/ \E id \in SegIds : SfDelayedFires(id)
    \/ SfWatcher
    \/ \E id \in SegIds : registerSegment(id)

(***************************************************************************)
(* Part V.  Multi-component server (src/unnamed/part_005).  An async       *)
(* function runs without interruption up to an await on real I/O or on a   *)
(* timer; there it is suspended (an element of ms_calls) and any other     *)
(* handler may run before it resumes.  An await on a promise that settles  *)
(* without I/O (initializeSystem failing on its first check,               *)
(* StreamFetcher.start, StreamPublisher.start) resumes before any other    *)
(* handler runs, so it does not suspend the call here.                     *)
(***************************************************************************)
MissingEnv == "Missing required environment variables: RTMP_URL, STREAM_KEY, or VIDEO_URL"

InitFailed == "Failed to initialize system components"

SegmentsTimeout == "Timeout waiting for initial segments"

PlaylistFailed == "Failed to generate initial playlist"

\* publisherStats?.stats.reconnects > 5
ReconnectThreshold == 5

NoTick == [seen |-> FALSE, fetcherRunning |-> FALSE, publisherRunning |-> FALSE,
           activeConnections |-> 0, restart |-> FALSE]

\* the module-level variables a call reads and writes
MsGlobals ==
    [systemStatus |-> systemStatus, lastError |-> ms_lastError,
     startTime |-> ms_startTime, healthMonitor |-> healthMonitor,
     intervals |-> ms_intervals, streamFetcher |-> streamFetcher,
     streamPublisher |-> streamPublisher, reconnects |-> ms_reconnects,
     fallbacks |-> ms_fallbacks]

\* a call that ran from G on: the variables it leaves and where it is suspended
At(G, pc) == [g |-> G, pc |-> pc]

\* stopStreaming, from the end of streamFetcher.stop() on
StopEnd(G) == At([G EXCEPT !.systemStatus = "stopped", !.startTime = "null"], "done")

\* stopStreaming, from the end of streamPublisher.stop() on
StopAfterPublisher(G) ==
    IF G.streamFetcher # "null"
    THEN At([G EXCEPT !.streamFetcher = "idle"], "fetcherStop")
    ELSE StopEnd(G)

\* stopStreaming up to its first await
stopStreaming(G) ==
    LET G1 == [G EXCEPT !.systemStatus = "stopping",
                        !.healthMonitor = FALSE,
                        !.intervals = IF G.healthMonitor THEN @ - 1 ELSE @]
    IN  IF G1.streamPublisher # "null"
        THEN At([G1 EXCEPT !.streamPublisher = "idle"], "publisherStop")
        ELSE StopAfterPublisher(G1)

\* the catch block of startStreaming
StartCatch(G, message) ==
    stopStreaming([G EXCEPT !.systemStatus = "error", !.lastError = message])

\* startHealthMonitoring
startHealthMonitoring(G) ==
    [G EXCEPT !.healthMonitor = TRUE, !.intervals = @ + 1]

\* startStreaming up to its first await
startStreaming(G) ==
    IF G.systemStatus = "running" THEN At(G, "done")
    ELSE LET G1 == [G EXCEPT !.systemStatus = "starting", !.lastError = "null",
                             !.startTime = "date"]
         IN  IF G1.streamFetcher # "null" THEN At(G1, "initialize")
             ELSE IF ms_envOK THEN At(G1, "mkdir")
             ELSE StartCatch([G1 EXCEPT !.lastError = MissingEnv], InitFailed)

\* stopStreaming called by restartStreaming, which calls startStreaming next
FullRestart(r) ==
    IF r.pc = "publisherStop" THEN At(r.g, "fullPublisherStop")
    ELSE IF r.pc = "fetcherStop" THEN At(r.g, "fullFetcherStop")
    ELSE startStreaming(r.g)

\* restartStreaming up to its first await (streamPublisher.stop())
restartStreaming(G) ==
    At([G EXCEPT !.streamPublisher = "idle"], "restartPublisherStop")

\* the end of a health check, after restartStreaming if it was called
TickTail(G) ==
    IF G.reconnects > ReconnectThreshold
    THEN [G EXCEPT !.fallbacks = IF @ < 2 THEN @ + 1 ELSE @]
    ELSE G

\* a suspended call resumes; ok is what the awaited operation answered
Resumed(G, pc, ok) ==
    CASE pc = "mkdir" ->
           \* initializeSystem creates the three components
           At([G EXCEPT !.streamFetcher = "idle", !.streamPublisher = "idle",
                        !.reconnects = 0, !.fallbacks = 0],
              "initialize")
      [] pc = "restartPublisherStop" ->
           \* continuityCont.handleStreamFailure(), then waitForSegments(2, 15000)
           At(G, "restartWaitForSegments")
      [] pc = "restartWaitForSegments" ->
           IF ok THEN At(G, "updatePlaylist") ELSE FullRestart(stopStreaming(G))
      [] pc = "updatePlaylist" ->
           IF ok THEN At([G EXCEPT !.streamPublisher = "running"], "done")
           ELSE FullRestart(stopStreaming(G))
      [] pc = "fullPublisherStop" -> FullRestart(StopAfterPublisher(G))
      [] pc = "fullFetcherStop" -> FullRestart(StopEnd(G))
      [] pc = "initialize" ->
           \* streamFetcher.start()
           At([G EXCEPT !.streamFetcher = "running"], "waitForSegments")
      [] pc = "waitForSegments" ->
           IF ok THEN At(G, "generatePlaylist") ELSE StartCatch(G, SegmentsTimeout)
      [] pc = "generatePlaylist" ->
           IF ok
           THEN \* streamPublisher.start(playlistPath)
                At(startHealthMonitoring(
                       [G EXCEPT !.streamPublisher = "running",
                                 !.systemStatus = "running"]), "done")
           ELSE StartCatch(G, PlaylistFailed)
      [] pc = "publisherStop" -> StopAfterPublisher(G)
      [] pc = "fetcherStop" -> StopEnd(G)

Call(fn, pc) == [fn |-> fn, pc |-> pc]

MsInFlight == BagToSet(ms_calls)

\* the call fn, having run to r, assigns the variables and is suspended or gone
MsCommit(fn, r, rest) ==
    /\ r.g.intervals <= MaxIntervals
    /\ systemStatus' = r.g.systemStatus
    /\ ms_lastError' = r.g.lastError
    /\ ms_startTime' = r.g.startTime
    /\ healthMonitor' = r.g.healthMonitor
    /\ ms_intervals' = r.g.intervals
    /\ streamFetcher' = r.g.streamFetcher
    /\ streamPublisher' = r.g.streamPublisher
    /\ ms_reconnects' = r.g.reconnects
    /\ ms_fallbacks' = r.g.fallbacks
    /\ ms_calls' = IF r.pc = "done" THEN rest ELSE Arm(rest, Call(fn, r.pc))
    /\ UNCHANGED <<ms_envOK, NotSystem>>

\* a startStreaming call is awaiting the fetcher or waitForSegments, alone
StartAwaitsFetcher ==
    /\ systemStatus = "starting"
    /\ BagCardinality(ms_calls) = 1
    /\ \E c \in MsInFlight :
          c.fn = "startStreaming" /\ c.pc \in {"initialize", "waitForSegments"}

\* POST /start, or the auto-start of the listen callback
MsStartRequest ==
    /\ BagCardinality(ms_calls) < MaxCalls
    /\ MsCommit("startStreaming", startStreaming(MsGlobals), ms_calls)
    /\ ms_lastRequest' = "startStreaming"
    /\ ms_lastTick' = NoTick

\* POST /stop
MsStopRequest ==
    /\ BagCardinality(ms_calls) < MaxCalls
    /\ MsCommit("stopStreaming", stopStreaming(MsGlobals), ms_calls)
    /\ ms_lastRequest' = IF StartAwaitsFetcher THEN "stopWhileStarting"
                         ELSE "stopStreaming"
    /\ ms_lastTick' = NoTick

\* POST /restart.  Without components restartStreaming throws at
\* continuityCont.waitForSegments before it has changed anything.
MsRestartRequest ==
    /\ BagCardinality(ms_calls) < MaxCalls
    /\ streamPublisher # "null"
    /\ MsCommit("restartStreaming", restartStreaming(MsGlobals), ms_calls)
    /\ ms_lastRequest' = "restartStreaming"
    /\ ms_lastTick' = NoTick

\* the close handler of a publisher subprocess schedules a reconnect
MsPublisherReconnect ==
    /\ streamPublisher = "running"
    /\ ms_reconnects <= ReconnectThreshold
    /\ ms_reconnects' = IF ms_reconnects = 0 THEN 1 ELSE ReconnectThreshold + 1
    /\ ms_lastTick' = NoTick
    /\ UNCHANGED <<ms_envOK, systemStatus, ms_lastError, ms_startTime, healthMonitor,
                   ms_intervals, streamFetcher, streamPublisher, ms_calls,
                   ms_lastRequest, ms_fallbacks, NotSystem>>

\* a health-monitor interval fires; lowLookahead and activeConnections are
\* what getStats() of the fetcher and of the publisher report.  (On a healthy
\* check restoreQuality() is called when the backup is connected; it changes
\* nothing of this part.)
HealthTick(lowLookahead, activeConnections) ==
    /\ ms_intervals > 0
    /\ BagCardinality(ms_calls) < MaxCalls
    /\ IF systemStatus # "running"
       THEN UNCHANGED <<msVars, NotSystem>>
       ELSE LET fetcherIssue == streamFetcher # "running" \/ lowLookahead
                publisherIssue == streamPublisher # "running" \/ activeConnections = 0
                restart == (fetcherIssue \/ publisherIssue) /\ streamPublisher # "running"
                r == IF restart THEN restartStreaming(MsGlobals)
                     ELSE IF fetcherIssue \/ publisherIssue
                     THEN At(TickTail(MsGlobals), "done")
                     ELSE At(MsGlobals, "done")
            IN  /\ MsCommit("healthTick", r, ms_calls)
                /\ ms_lastTick' = [seen |-> TRUE,
                                   fetcherRunning |-> streamFetcher = "running",
                                   publisherRunning |-> streamPublisher = "running",
                                   activeConnections |->
                                       IF streamPublisher = "running"
                                       THEN activeConnections ELSE 0,
                                   restart |-> restart]
                /\ UNCHANGED ms_lastRequest

\* the awaited operation of a suspended call completes
MsResume(c, ok) ==
    /\ c \in MsInFlight
    /\ LET r == Resumed(MsGlobals, c.pc, ok)
       IN  MsCommit(c.fn,
                    IF c.fn = "healthTick" /\ r.pc = "done"
                    THEN At(TickTail(r.g), "done") ELSE r,
                    Disarm(ms_calls, c))
    /\ ms_lastTick' = NoTick
    /\ UNCHANGED ms_lastRequest

MsInit ==
    /\ ms_envOK \in BOOLEAN
    /\ systemStatus = "stopped"
    /\ ms_lastError = "null"
    /\ ms_startTime = "null"
    /\ healthMonitor = FALSE
    /\ ms_intervals = 0
    /\ streamFetcher = "null"
    /\ streamPublisher = "null"
    /\ ms_calls = EmptyBag
    /\ ms_lastRequest = "none"
    /\ ms_reconnects = 0
    /\ ms_fallbacks = 0
    /\ ms_lastTick = NoTick

MsIdle == MsInit /\ ms_envOK

MsNext ==
    \/ MsStartRequest
    \/ MsStopRequest
    \/ MsRestartRequest
    \/ MsPublisherReconnect
    \/ \E lowLookahead \in BOOLEAN, activeConnections \in 0..1 :
           HealthTick(lowLookahead, activeConnections)
    \/ \E c \in MsInFlight, ok \in BOOLEAN : MsResume(c, ok)

(***************************************************************************)
(* Part VI.  StreamPublisher (src/src/stream-publisher.js), constructed as *)
(* initializeSystem does with a backup configured: endpoint "primary"      *)
(* (priority 1, active) and endpoint "backup" (priority 2, inactive).      *)
(* startDirectPublisher and startPublisher differ in the ffmpeg arguments  *)
(* only; their handlers are the same and one kind of subprocess stands for *)
(* both.                                                                   *)
(***************************************************************************)
maxReconnects == 10

baseReconnectDelay == 2000

maxReconnectDelay == 30000

\* Math.min(2000 * Math.pow(1.5, reconnectAttempts - 1), 30000), in microseconds
reconnectDelay(reconnectAttempts) ==
    Grow(Us(baseReconnectDelay), 3, 2, reconnectAttempts - 1, Us(maxReconnectDelay))

EndpointNames == {"primary", "backup"}

priority(name) == IF name = "primary" THEN 1 ELSE 2

PubSlots == 1..MaxPubProcs

NoPublisher == [st |-> "free", endpoint |-> "none", isConnected |-> FALSE]

\* the fields a method of the publisher reads and writes; ok is false when the
\* method would need more subprocesses than the model has slots
SpFields ==
    [active |-> sp_active, procs |-> sp_procs, publishers |-> sp_publishers,
     settle |-> sp_settle, ok |-> TRUE]

SpFreeSlots(P) == {s \in PubSlots : P.procs[s].st = "free"}

\* spawn('ffmpeg', ffmpegArgs); this.publishers.set(endpoint.name, process)
SpSpawn(P, name) ==
    IF SpFreeSlots(P) = {} THEN [P EXCEPT !.ok = FALSE]
    ELSE LET s == CHOOSE x \in SpFreeSlots(P) : \A y \in SpFreeSlots(P) : x <= y
         IN  [P EXCEPT !.procs[s] = [st |-> "run", endpoint |-> name,
                                     isConnected |-> FALSE],
                       !.publishers[name] = s]

\* process.kill('SIGTERM'); this.publishers.delete(name)
SpKill(P, name) ==
    IF P.publishers[name] = 0 THEN P
    ELSE [P EXCEPT !.procs[P.publishers[name]].st = "killed",
                   !.publishers[name] = 0]

\* setEndpointActive(name, active)
setEndpointActive(P, name, active) ==
    LET P1 == [P EXCEPT !.active[name] = active]
    IN  IF active /\ sp_isRunning THEN SpSpawn(P1, name)
        ELSE IF ~active THEN SpKill(P1, name)
        ELSE P1

\* fallbackQuality(): the first inactive backup is activated, then the first
\* active primary is deactivated
fallbackQuality(P) ==
    LET P1 == IF ~P.active["backup"] THEN setEndpointActive(P, "backup", TRUE) ELSE P
    IN  IF P1.active["primary"] THEN setEndpointActive(P1, "primary", FALSE) ELSE P1

\* variant of the settle callback that leaves the backup as it is
settleCallback_KeepBackup(P) == P

\* the callback of restoreQuality's 10 s timer
settleCallback(P) ==
    IF P.active["backup"] THEN setEndpointActive(P, "backup", FALSE) ELSE P

\* restoreQuality()
restoreQuality(P) ==
    IF ~P.active["primary"]
    THEN [setEndpointActive(P, "primary", TRUE) EXCEPT !.settle = @ + 1]
    ELSE P

\* the method ran to P: its assignments
SpCommit(P) ==
    /\ P.ok
    /\ P.settle <= MaxPubTimers
    /\ sp_active' = P.active
    /\ sp_procs' = P.procs
    /\ sp_publishers' = P.publishers
    /\ sp_settle' = P.settle
    /\ UNCHANGED NotPublisher

RECURSIVE SpStartAll(_, _)
\* start(): startDirectPublisher for every active endpoint of the set E
SpStartAll(P, E) ==
    IF E = {} THEN P
    ELSE LET e == CHOOSE x \in E : \A y \in E : priority(x) <= priority(y)
         IN  SpStartAll(SpSpawn(P, e), E \ {e})

\* start(inputPath)
SpStart ==
    /\ ~sp_isRunning
    /\ sp_isRunning' = TRUE
    /\ SpCommit(SpStartAll(SpFields, {e \in EndpointNames : sp_active[e]}))
    /\ UNCHANGED <<sp_activeConnections, sp_failedConnections, sp_reconnect,
                   sp_stops, sp_scenario, sp_mark, sp_streak,
                   sp_early, sp_lastDelay>>

\* stop() up to its await: every subprocess of the map is signalled
SpStop ==
    /\ sp_stops < MaxPubTimers
    /\ sp_early' = IF sp_stops = 0 THEN sp_reconnect ELSE sp_early
    /\ UNCHANGED sp_lastDelay
    /\ sp_isRunning' = FALSE
    /\ sp_procs' = [s \in PubSlots |->
                      IF \E e \in EndpointNames : sp_publishers[e] = s
                      THEN [sp_procs[s] EXCEPT !.st = "killed"] ELSE sp_procs[s]]
    /\ sp_stops' = sp_stops + 1
    /\ UNCHANGED <<sp_active, sp_publishers, sp_activeConnections,
                   sp_failedConnections, sp_reconnect, sp_settle, sp_scenario,
                   sp_mark, sp_streak>>
    /\ UNCHANGED NotPublisher

\* stop() after its 2 s timer: publishers.clear(), activeConnections = 0
SpStopResumes ==
    /\ sp_stops > 0
    /\ \A e \in EndpointNames : sp_early[e] = 0
    /\ UNCHANGED <<sp_early, sp_lastDelay>>
    /\ sp_stops' = sp_stops - 1
    /\ sp_publishers' = [e \in EndpointNames |-> 0]
    /\ sp_activeConnections' = 0
    /\ UNCHANGED <<sp_isRunning, sp_active, sp_procs, sp_failedConnections,
                   sp_reconnect, sp_settle, sp_scenario, sp_mark, sp_streak>>
    /\ UNCHANGED NotPublisher

\* a call of fallbackQuality()
SpFallbackQuality ==
    /\ SpCommit(fallbackQuality(SpFields))
    /\ sp_scenario' = "fallback"
    /\ sp_mark' = 0
    /\ UNCHANGED <<sp_isRunning, sp_activeConnections, sp_failedConnections,
                   sp_reconnect, sp_stops, sp_streak,
                   sp_early, sp_lastDelay>>

\* a call of restoreQuality()
SpRestoreQuality ==
    /\ SpCommit(restoreQuality(SpFields))
    /\ IF sp_scenario = "fallback" /\ sp_settle' > sp_settle
       THEN sp_scenario' = "restored" /\ sp_mark' = sp_settle'
       ELSE sp_scenario' = "none" /\ sp_mark' = 0
    /\ UNCHANGED <<sp_isRunning, sp_activeConnections, sp_failedConnections,
                   sp_reconnect, sp_stops, sp_streak,
                   sp_early, sp_lastDelay>>

\* the oldest 10 s timer of restoreQuality fires
SpSettleFires ==
    /\ sp_settle > 0
    /\ SpCommit(settleCallback([SpFields EXCEPT !.settle = @ - 1]))
    /\ sp_mark' = IF sp_mark > 0 THEN sp_mark - 1 ELSE 0
    /\ sp_scenario' = IF sp_scenario = "restored" /\ sp_mark = 1 THEN "settled"
                      ELSE sp_scenario
    /\ UNCHANGED <<sp_isRunning, sp_activeConnections, sp_failedConnections,
                   sp_reconnect, sp_stops, sp_streak,
                   sp_early, sp_lastDelay>>

\* the callback of a reconnect timer: startDirectPublisher(endpoint, inputPath)
SpReconnectFires(e) ==
    /\ sp_early' = [sp_early EXCEPT ![e] = IF @ > 0 THEN @ - 1 ELSE 0]
    /\ UNCHANGED sp_lastDelay
    /\ sp_reconnect[e] > 0
    /\ sp_reconnect' = [sp_reconnect EXCEPT ![e] = @ - 1]
    /\ SpCommit(SpSpawn(SpFields, e))
    /\ UNCHANGED <<sp_isRunning, sp_activeConnections, sp_failedConnections,
                   sp_stops, sp_scenario, sp_mark, sp_streak>>

\* stderr handler, for the first chunk with fps= of a subprocess
SpStderr(s) ==
    /\ sp_procs[s].st = "run"
    /\ ~sp_procs[s].isConnected
    /\ sp_procs' = [sp_procs EXCEPT ![s].isConnected = TRUE]
    /\ sp_activeConnections' = sp_activeConnections + 1
    /\ sp_streak' = IF sp_procs[s].endpoint = "primary" THEN 0 ELSE sp_streak
    /\ sp_lastDelay' = IF sp_procs[s].endpoint = "primary" THEN 0 ELSE sp_lastDelay
    /\ UNCHANGED <<sp_isRunning, sp_active, sp_publishers, sp_failedConnections,
                   sp_reconnect, sp_settle, sp_stops, sp_scenario, sp_mark,
                   sp_early>>
    /\ UNCHANGED NotPublisher

\* close handler of a subprocess.  reconnectAttempts is a variable of the
\* startDirectPublisher call that spawned this subprocess: it is 0 when the
\* only close event of the subprocess arrives.
SpClose(s) ==
    /\ sp_procs[s].st # "free"
    /\ LET e == sp_procs[s].endpoint
           reconnectAttempts == 0 + 1
           eligible == sp_isRunning /\ sp_active[e]
       IN  /\ sp_procs' = [sp_procs EXCEPT ![s] = NoPublisher]
           /\ sp_publishers' = [sp_publishers EXCEPT ![e] = 0]
           /\ sp_activeConnections' =
                  IF sp_activeConnections > 0 THEN sp_activeConnections - 1 ELSE 0
           /\ IF eligible /\ reconnectAttempts <= maxReconnects
              THEN /\ sp_reconnect[e] < MaxPubTimers
                   /\ sp_reconnect' = [sp_reconnect EXCEPT ![e] = @ + 1]
                   /\ UNCHANGED <<sp_active, sp_failedConnections>>
              ELSE IF eligible
              THEN /\ sp_active' = [sp_active EXCEPT ![e] = FALSE]
                   /\ sp_failedConnections' = sp_failedConnections + 1
                   /\ UNCHANGED sp_reconnect
              ELSE UNCHANGED <<sp_active, sp_failedConnections, sp_reconnect>>
           /\ sp_streak' =
                  IF e = "primary" /\ eligible /\ sp_streak <= maxReconnects
                  THEN sp_streak + 1 ELSE sp_streak
           /\ sp_lastDelay' =
                  IF e # "primary" THEN sp_lastDelay
                  ELSE IF eligible /\ reconnectAttempts <= maxReconnects
                  THEN reconnectDelay(reconnectAttempts) ELSE 0
    /\ UNCHANGED <<sp_isRunning, sp_settle, sp_stops, sp_scenario, sp_mark,
                   sp_early>>
    /\ UNCHANGED NotPublisher

\* the state after the constructor
SpInit ==
    /\ sp_isRunning = FALSE
    /\ sp_active = [e \in EndpointNames |-> e = "primary"]
    /\ sp_procs = [s \in PubSlots |-> NoPublisher]
    /\ sp_publishers = [e \in EndpointNames |-> 0]
    /\ sp_activeConnections = 0
    /\ sp_failedConnections = 0
    /\ sp_reconnect = [e \in EndpointNames |-> 0]
    /\ sp_settle = 0
    /\ sp_stops = 0
    /\ sp_scenario = "none"
    /\ sp_mark = 0
    /\ sp_streak = 0
    /\ sp_early = [e \in EndpointNames |-> 0]
    /\ sp_lastDelay = 0

SpNext ==
    \/ SpStart
    \/ SpStop
    \/ SpStopResumes
    \/ SpFallbackQuality
    \/ SpRestoreQuality
    \/ SpSettleFires
    \/ \E e \in EndpointNames : SpReconnectFires(e)
    \/ \E s \in PubSlots : SpStderr(s)
    \/ \E s \in PubSlots : SpClose(s)

(***************************************************************************)
(* Part VII.  Log lines of a spawn.  A string is the sequence of the       *)
(* pieces it is concatenated from, a log the sequence of its lines.  Of    *)
(* the ffmpeg arguments the constant encoder options are left out.         *)
(***************************************************************************)
StreamKeys == {"live_1111", "live_2222", "live_3333"}

RtmpUrls == {"rtmp://a.example/app", "rtmp://b.example/app"}

VideoUrls == {"https://example.com/a.mp4?dl=1", "cache/stream.m3u8"}

\* restartAttempts > 5 selects the fallback arguments of startStream
FallbackAttempts == 5

Hidden == "[STREAM_KEY_HIDDEN]"

\* `${rtmpUrl}/${streamKey}`, and rtmpUrl + '/[STREAM_KEY_HIDDEN]'
UrlWith(rtmpUrl, tail) == <<rtmpUrl, "/", tail>>

\* Array.prototype.indexOf, 0 for -1
IndexOf(args, x) ==
    IF \E i \in 1..Len(args) : args[i] = x
    THEN CHOOSE i \in 1..Len(args) : args[i] = x /\ \A j \in 1..(i - 1) : args[j] # x
    ELSE 0

RECURSIVE Join(_)
\* args.join(' ')
Join(args) == IF args = <<>> THEN <<>> ELSE Head(args) \o Join(Tail(args))

\* the console.log calls of startStream
startStreamLog(rtmpUrl, streamKey, videoUrl, attempts) ==
    LET fullRtmpUrl == UrlWith(rtmpUrl, streamKey)
        ffmpegArgs ==
            IF attempts > FallbackAttempts
            THEN <<<<"-hide_banner">>, <<"-re">>, <<"-i">>, <<videoUrl>>,
                   <<"-preset">>, <<"ultrafast">>, <<"-f">>, <<"flv">>, fullRtmpUrl>>
            ELSE <<<<"-hide_banner">>, <<"-re">>, <<"-reconnect">>, <<"1">>, <<"-i">>,
                   <<videoUrl>>, <<"-preset">>, <<"veryfast">>, <<"-f">>, <<"flv">>,
                   fullRtmpUrl>>
        rtmpIndex == IndexOf(ffmpegArgs, fullRtmpUrl)
        maskedArgs == IF rtmpIndex # 0
                      THEN [ffmpegArgs EXCEPT ![rtmpIndex] = UrlWith(rtmpUrl, Hidden)]
                      ELSE ffmpegArgs
    IN  <<<<"Starting stream...">>,
          <<"RTMP URL:">> \o UrlWith(rtmpUrl, Hidden),
          <<"Video Source:", videoUrl>>>>
        \o (IF attempts > FallbackAttempts
            THEN <<<<"Using simplified fallback FFmpeg configuration">>>> ELSE <<>>)
        \o <<<<"FFmpeg command:", "ffmpeg">> \o Join(maskedArgs)>>

\* the console.log calls of startDirectPublisher for the endpoint that
\* initializeSystem configures with url `${rtmpUrl}/${streamKey}`
startDirectPublisherLog(rtmpUrl, streamKey, inputPath, prio) ==
    LET url == UrlWith(rtmpUrl, streamKey)
        ffmpegArgs ==
            IF prio = 1
            THEN <<<<"-hide_banner">>, <<"-re">>, <<"-f">>, <<"hls">>, <<"-i">>,
                   <<inputPath>>, <<"-preset">>, <<"veryfast">>, <<"-f">>, <<"flv">>, url>>
            ELSE <<<<"-hide_banner">>, <<"-re">>, <<"-f">>, <<"hls">>, <<"-i">>,
                   <<inputPath>>, <<"-preset">>, <<"ultrafast">>, <<"-f">>, <<"flv">>, url>>
    IN  <<<<"Starting direct publisher:", IF prio = 1 THEN "primary" ELSE "backup",
            "Priority:", ToString(prio)>>,
          <<"Direct streaming command: ffmpeg">> \o Join(ffmpegArgs)>>

\* startStream spawns and logs, once with each key
LgStartStream ==
    /\ lg_fn = "none"
    /\ lg_fn' = "startStream"
    /\ lg_logs' = [i \in 1..2 |->
                      startStreamLog(lg_rtmpUrl, lg_keys[i], lg_videoUrl,
                                     lg_restartAttempts)]
    /\ UNCHANGED <<lg_rtmpUrl, lg_videoUrl, lg_keys, lg_restartAttempts, lg_priority>>
    /\ UNCHANGED NotLog

\* startDirectPublisher spawns and logs, once with each key
LgStartDirectPublisher ==
    /\ lg_fn = "none"
    /\ lg_fn' = "startDirectPublisher"
    /\ lg_logs' = [i \in 1..2 |->
                      startDirectPublisherLog(lg_rtmpUrl, lg_keys[i], lg_videoUrl,
                                              lg_priority)]
    /\ UNCHANGED <<lg_rtmpUrl, lg_videoUrl, lg_keys, lg_restartAttempts, lg_priority>>
    /\ UNCHANGED NotLog

LgInit ==
    /\ lg_rtmpUrl \in RtmpUrls
    /\ lg_videoUrl \in VideoUrls
    /\ lg_keys \in StreamKeys \X StreamKeys
    /\ lg_restartAttempts \in {0, FallbackAttempts + 1}
    /\ lg_priority \in 1..2
    /\ lg_fn = "none"
    /\ lg_logs = <<<<>>, <<>>>>

LgIdle ==
    /\ LgInit
    /\ lg_rtmpUrl = "rtmp://a.example/app"
    /\ lg_videoUrl = "cache/stream.m3u8"
    /\ lg_keys = <<"live_1111", "live_1111">>
    /\ lg_restartAttempts = 0
    /\ lg_priority = 1

LgNext == LgStartStream \/ LgStartDirectPublisher

(***************************************************************************)
(* Part II.  One evaluation of the backoff delay at two attempt counts.    *)
(***************************************************************************)
NotComputed == -1

BackoffOf(variant, attempts) ==
    IF variant = "eof"
    THEN BackoffDelay(InitialRestartDelay, attempts)
    ELSE PrBackoffDelay(attempts)

MaxAttemptsOf(variant) ==
    IF variant = "eof" THEN maxRestartAttempts ELSE pr_maxRestartAttempts

MaxDelayOf(variant) ==
    IF variant = "eof" THEN Us(maxRestartDelay) ELSE Us(pr_maxRestartDelay)

BoInit ==
    /\ bo_variant \in {"eof", "resume"}
    /\ bo_n \in 1..MaxAttemptsOf(bo_variant)
    /\ bo_m \in 1..MaxAttemptsOf(bo_variant)
    /\ bo_dn = NotComputed
    /\ bo_dm = NotComputed
    /\ bo_pc = "in"

BoCompute ==
    /\ bo_pc = "in"
    /\ bo_dn' = BackoffOf(bo_variant, bo_n)
    /\ bo_dm' = BackoffOf(bo_variant, bo_m)
    /\ bo_pc' = "out"
    /\ UNCHANGED <<bo_variant, bo_n, bo_m>>
    /\ UNCHANGED NotBackoff

\* the parts a specification leaves alone stay in these states
BoIdle ==
    /\ bo_variant = "eof"
    /\ bo_n = 1
    /\ bo_m = 1
    /\ bo_dn = NotComputed
    /\ bo_dm = NotComputed
    /\ bo_pc = "in"

EofIdle == EofInit /\ envOK

PrIdle == PrInit /\ pr_envOK

vars == <<eofVars, boVars, prVars, sfVars, msVars, spVars, lgVars>>

Init == EofInit /\ BoIdle /\ PrIdle /\ SfIdle /\ MsIdle /\ SpInit /\ LgIdle

Next ==
    \/ StartRequest
    \/ StopRequest
    \/ RestartRequest
    \/ \E t \in Pending : FireTimer(t)
    \/ \E s \in Procs, chunk \in Chunks : Stderr(s, chunk)
    \/ \E s \in Procs, code \in ExitCodes \cup {SpawnFailCode} : Close(s, code)
    \/ \E s \in Procs : Error(s)
    \/ Tick

\* the EOF-aware supervisor
Spec == Init /\ [][Next]_vars

\* Spec with the timers of Node: a restart timer that is pending fires
SpecLive ==
    /\ Init
    /\ [][Next]_vars
    /\ \A k \in {"backoff", "eof"} :
           WF_vars(\E t \in Pending : t.kind = k /\ FireTimer(t))

BackoffInit == EofIdle /\ BoInit /\ PrIdle /\ SfIdle /\ MsIdle /\ SpInit /\ LgIdle

BackoffNext == BoCompute

\* the backoff delay
SpecBackoff == BackoffInit /\ [][BackoffNext]_vars

ResumeInit == EofIdle /\ BoIdle /\ PrInit /\ SfIdle /\ MsIdle /\ SpInit /\ LgIdle

\* the position-resume supervisor
SpecResume == ResumeInit /\ [][PrNext]_vars

FetcherInit == EofIdle /\ BoIdle /\ PrIdle /\ SfInit /\ MsIdle /\ SpInit /\ LgIdle

\* StreamFetcher
SpecFetcher == FetcherInit /\ [][SfNext]_vars

SystemInit == EofIdle /\ BoIdle /\ PrIdle /\ SfIdle /\ MsInit /\ SpInit /\ LgIdle

\* the multi-component server
SpecSystem == SystemInit /\ [][MsNext]_vars

PublisherInit == EofIdle /\ BoIdle /\ PrIdle /\ SfIdle /\ MsIdle /\ SpInit /\ LgIdle

\* StreamPublisher
SpecPublisher == PublisherInit /\ [][SpNext]_vars

LogInit == EofIdle /\ BoIdle /\ PrIdle /\ SfIdle /\ MsIdle /\ SpInit /\ LgInit

\* the log lines of a spawn
SpecLog == LogInit /\ [][LgNext]_vars

(***************************************************************************)
(* Properties of the EOF-aware supervisor.                                 *)
(***************************************************************************)
\* this step spawns a child
Spawned == streamProcess = NoProc /\ streamProcess' # NoProc

\* this step runs the callback of a pending timer of one of the kinds K
Fired(K) == \E t \in Pending : t.kind \in K /\ timers' = Disarm(timers, t)

\* this step arms a timer of kind k
Armed(k) == CopiesIn(Timer(k, NoProc), timers') > CopiesIn(Timer(k, NoProc), timers)

\* this step arms no timer
NothingArmed == \A t \in BagToSet(timers') : CopiesIn(t, timers') <= CopiesIn(t, timers)
                   \/ (t.kind = "stable" /\ t.owner = NoProc)

\* this step is the close handler of a child whose exit was not requested
UnintentionalExit(s, code) == Close(s, code) /\ ~intentionalStop

HasMarker(stderr) == \E i \in 1..Len(stderr) : stderr[i] = "eof"

\* C1: once stopStream has run with no child and a backoff or EOF restart
\* timer pending, that timer never spawns a child, until a start or restart
\* request arrives.
C1_StopCancelsRestartTimer ==
    [][stopIdle => ~(Spawned /\ Fired({"backoff", "eof"}))]_vars

\* C2: the close handler of an intentionally stopped child sets the status to
\* 'stopped' and arms no timer, whatever the exit code, and after that exit no
\* backoff or EOF restart timer spawns a child until a start or restart
\* request arrives.
C2_IntentionalExitNoRestart ==
    [][/\ \A s \in Procs, code \in ExitCodes \cup {SpawnFailCode} :
             Close(s, code) /\ intentionalStop
                 => streamStatus' = "stopped" /\ NothingArmed
       /\ stopExit => ~(Spawned /\ Fired({"backoff", "eof"}))]_vars

C5_ResetOnlyWhenStable ==
    [][\A t \in Pending :
           /\ t.kind = "stable"
           /\ timers' = Disarm(timers, t)
           /\ restartAttempts > 0
           /\ restartAttempts' = 0
           => t.owner # NoProc]_vars

\* C6: an EOF restart armed less than 10 s after the previous EOF restart
\* uses the delay of 3 s.
C6_FrequentEofDelay ==
    [][Armed("eof") /\ sinceLastEOFRestart < EofWindow
           => lastTimeout' = Timeout("eof", Us(EofDelayFrequent))]_vars

\* an EOF restart has been armed with the 3 s delay
C6_Witness ==
    /\ lastTimeout = Timeout("eof", Us(EofDelayFrequent))
    /\ sinceLastEOFRestart = 0

\* this step went through scheduleRestart: backoff timer or give-up
WentThroughScheduleRestart ==
    \/ /\ restartAttempts < maxRestartAttempts
       /\ restartAttempts' = restartAttempts + 1
       /\ Armed("backoff")
    \/ /\ restartAttempts >= maxRestartAttempts
       /\ streamStatus' = "failed"
       /\ NothingArmed

\* C7 as stated: an unintentional exit is handled as EOF (EOF timer of 1 s or
\* 3 s, no backoff) exactly when the code is 0 or the stderr tail holds an
\* end-of-stream marker, whatever the code; every other one goes through
\* scheduleRestart.
C7_EofWhateverTheCode ==
    [][\A s \in Procs, code \in ExitCodes \cup {SpawnFailCode} :
           UnintentionalExit(s, code)
               => IF code = 0 \/ HasMarker(lastStderr)
                  THEN /\ Armed("eof")
                       /\ ~Armed("backoff")
                       /\ lastTimeout'.delay \in {Us(EofDelayNormal), Us(EofDelayFrequent)}
                  ELSE ~Armed("eof") /\ WentThroughScheduleRestart]_vars

\* C7 amended: an unintentional exit is handled as EOF exactly when the code
\* is 0, or the code is 1 and the stderr tail holds an end-of-stream marker;
\* every other one goes through scheduleRestart.
C7_EofByCodeAndMarker ==
    [][\A s \in Procs, code \in ExitCodes \cup {SpawnFailCode} :
           UnintentionalExit(s, code)
               => IF code = 0 \/ (code = 1 /\ HasMarker(lastStderr))
                  THEN /\ Armed("eof")
                       /\ ~Armed("backoff")
                       /\ lastTimeout'.delay \in {Us(EofDelayNormal), Us(EofDelayFrequent)}
                  ELSE ~Armed("eof") /\ WentThroughScheduleRestart]_vars

\* an exit with code 1 and a marker in the stderr tail was handled as EOF
C7_Witness ==
    /\ lastError = "exit"
    /\ lastTimeout.kind = "eof"
    /\ streamStatus = "error"
    /\ streamProcess = NoProc
    /\ restartAttempts = 0

\* the delays the scenario lists for failures 1 to 6, in microseconds
C9_Listed == <<5000000, 7500000, 11250000, 16900000, 25300000, 37900000>>

\* C9: the backoff armed for the n-th consecutive failure (restartAttempts
\* going from n - 1 to n), n = 1..6, has the n-th listed delay: exactly for
\* 5, 7.5 and 11.25 s, within 0.1 s for the three approximate values.
C9_SixBackoffDelays ==
    [][\A n \in 1..6 :
           Armed("backoff") /\ restartAttempts = n - 1 /\ restartAttempts' = n
               => /\ lastTimeout'.kind = "backoff"
                  /\ lastTimeout'.delay - C9_Listed[n] \in
                         (IF n <= 3 THEN {0} ELSE -100000..100000)]_vars

\* the sixth consecutive failure has armed its backoff
C9_Witness ==
    /\ restartAttempts = 6
    /\ lastTimeout.kind = "backoff"
    /\ lastTimeout.delay > Us(37000)

\* C10: while the status is 'failed', every step other than a start, stop or
\* restart request keeps the status 'failed' and spawns no child.
C10_FailedUntilRequest ==
    [][streamStatus = "failed" /\ ~(StartRequest \/ StopRequest \/ RestartRequest)
           => streamStatus' = "failed" /\ ~Spawned]_vars

\* this step runs the callback of the timer armed by POST /restart
RestartTimerFires == \E t \in Pending : t.kind = "restart" /\ FireTimer(t)

\* C11: the timer a restart request arms is all the request leaves behind to
\* bring the stream back, so with the configuration present its callback
\* spawns the new child however late the old child exits: after the callback
\* a child exists that has not been told to stop.
C11_RestartSpawns ==
    [][RestartTimerFires /\ envOK
           => streamProcess' # NoProc /\ ~intentionalStop']_vars

\* the state the claim names as the outcome of stopStream; a restart pending
\* is a backoff or EOF restart timer
StoppedState ==
    /\ streamStatus = "stopped"
    /\ streamProcess = NoProc
    /\ restartAttempts = 0
    /\ ~intentionalStop
    /\ ~RestartTimerPending

\* C12: a second stopStream before the child's close event changes nothing
\* the first one left, and once the stopped child's exit has been handled the
\* state is the stopped state (status 'stopped', no child, restartAttempts 0,
\* intentionalStop false, no restart pending), also after further stop
\* requests, until a start or restart request arrives.
C12_StopIdempotent ==
    [][/\ StopRequest /\ streamProcess # NoProc /\ intentionalStop
           => UNCHANGED <<streamProcess, streamStatus, restartAttempts,
                          intentionalStop, timers, procs>>
       /\ stopExit' => StoppedState']_vars

\* this step calls startStream: POST /start or a timer other than the
\* stabilization timer
CallsStartStream ==
    \/ StartRequest
    \/ \E t \in Pending : t.kind # "stable" /\ FireTimer(t)

\* C14: startStream called while a child process handle exists spawns
\* nothing and leaves streamProcess, streamStatus, startTime, lastError and
\* restartDelay unchanged.
C14_StartWithChildIsNoOp ==
    [][CallsStartStream /\ streamProcess # NoProc
           => UNCHANGED <<streamProcess, procs, streamStatus, startTime,
                          lastError, restartDelay>>]_vars

\* the EOF restart timer ran startStream while a connected child existed: only
\* that callback empties the stderr tail of a connected child
C14_Witness ==
    /\ streamProcess # NoProc
    /\ procs[streamProcess].isConnected
    /\ lastStderr = <<>>

\* C39: the reported status agrees with the process handle: streamStatus is
\* 'streaming' or 'starting' only while streamProcess refers to a child, and
\* streamProcess is null whenever streamStatus is 'stopped' or 'failed'.
C39_StatusMatchesHandle ==
    /\ streamStatus \in {"streaming", "starting"} => streamProcess # NoProc
    /\ streamStatus \in {"stopped", "failed"} => streamProcess = NoProc

\* stopStream has signalled a child that has not exited yet
C39_Witness ==
    /\ intentionalStop
    /\ streamProcess # NoProc
    /\ streamStatus = "streaming"

\* the close handler took a child's exit as unintentional, and nothing has
\* been spawned and no request has changed the status since
AwaitingRestart ==
    /\ streamStatus = "error"
    /\ lastError \in {"exit", "eof"}
    /\ streamProcess = NoProc

\* C34: with timers that fire, every unintentional exit of the child is
\* eventually followed by a spawn or by the status 'failed', unless a stop is
\* requested first (stopStream with no child sets the status 'stopped').
C34_ExitLeadsToSpawnOrFailed ==
    AwaitingRestart ~> (streamProcess # NoProc \/ streamStatus \in {"failed", "stopped"})

\* an unintentional exit was handled and its restart timer is pending
C34_Witness == AwaitingRestart /\ RestartTimerPending

(***************************************************************************)
(* Properties of the backoff delay.                                        *)
(***************************************************************************)
\* C8: the backoff delay of either scheduleRestart is non-decreasing in the
\* attempt count, over 1..maxRestartAttempts, and never exceeds that
\* supervisor's maxRestartDelay.
C8_BackoffMonotoneCapped ==
    bo_pc = "out" =>
        /\ bo_n <= bo_m => bo_dn <= bo_dm
        /\ bo_dn <= MaxDelayOf(bo_variant)

\* two attempt counts, the lower below the cap and the higher at the cap
C8_Witness ==
    /\ bo_pc = "out"
    /\ bo_n < bo_m
    /\ bo_dn < bo_dm
    /\ bo_dm = MaxDelayOf(bo_variant)

(***************************************************************************)
(* Properties of the position-resume supervisor.                           *)
(***************************************************************************)
\* the spawned children that have not exited
LiveChildren == {s \in Procs : pr_procs[s].st = "run"}

\* C4: at most one spawned child that has not exited exists at any time.
C4_OneLiveChild == Cardinality(LiveChildren) <= 1

\* C20: lastStablePosition never decreases in a step other than a
\* reset-position request: not in a progress update, and not across a process
\* exit or a restart that changes sessionStartPosition.
C20_StablePositionMonotone ==
    [][~PrResetPosition => lastStablePosition' >= lastStablePosition]_vars

\* a progress update after a restart that resumed from a checkpoint has moved
\* the checkpoint
C20_Witness ==
    /\ sessionStartPosition > 0
    /\ lastStablePosition > sessionStartPosition

\* C32: every spawn made by the timer of scheduleRestart starts from the last
\* stable position: sessionStartPosition equals lastStablePosition at the
\* spawn and, when that position is greater than 0, the child is started with
\* a seek to it.
C32_RestartResumes ==
    [][\A t \in PrPending :
          /\ t.kind = "backoff"
          /\ PrFireTimer(t)
          /\ pr_streamProcess = NoProc
          /\ pr_streamProcess' # NoProc
          => /\ sessionStartPosition' = lastStablePosition
             /\ lastStablePosition > 0
                    => pr_procs'[pr_streamProcess'].seek
                           = formatTimeForFFmpeg(lastStablePosition)]_vars

\* hours*3600 + minutes*60 + seconds + centiseconds/100, in centiseconds
TokenValue(tok) == (tok.h * 3600 + tok.m * 60 + tok.s) * 100 + tok.cs

\* C36: for a stderr chunk with a token of the shape time=HH:MM:SS.cc the
\* stderr handler passes hours*3600 + minutes*60 + seconds + centiseconds/100
\* from parsePosition to updatePosition, which adds it (when it is not 0) to
\* sessionStartPosition to give currentPosition.
C36_ParsePosition ==
    [][\A s \in Procs, chunk \in PrChunks :
          PrStderr(s, chunk) /\ chunk.time.sep = "." /\ TokenValue(chunk.time) > 0
              => currentPosition' = sessionStartPosition + TokenValue(chunk.time)]_vars

(***************************************************************************)
(* Properties of StreamFetcher.                                            *)
(***************************************************************************)
\* C16: a segment that getSegment returns with ready = true has a backing
\* file, in every reachable state.
C16_ReadyHasFile ==
    \A id \in getAvailableSegments : getSegment(id) => id \in sf_files

\* this step is a registerSegment whose fs.stat succeeded
Registered == \E id \in SegIds : registerSegment(id) /\ id \in sf_files

\* C17: after every registerSegment that succeeds, whichever of the stderr
\* parser, the 100 ms timer and the file watcher called it and whatever else
\* is in flight, getAvailableSegments().length is at most
\* ceil(maxCacheSize / segmentDuration).
C17_WindowAfterRegister ==
    [][Registered => Cardinality(getAvailableSegments') <= maxSegments]_vars

\* a registration has evicted an id from a full window while another
\* registration is in flight
C17_Witness ==
    /\ sf_evicted > 0
    /\ Cardinality(getAvailableSegments) = maxSegments
    /\ InFlight > 0

\* the n largest elements of S, all of S when it has fewer
LargestN(S, n) == {x \in S : Cardinality({y \in S : y > x}) < n}

\* C35: eviction removes the oldest segments first: after every
\* registerSegment that succeeds, the tracked ids are the
\* ceil(maxCacheSize / segmentDuration) largest among those tracked before
\* plus the new id, so an id below every tracked id registered into a full
\* cache is itself evicted.
C35_EvictsOldestFirst ==
    [][\A id \in SegIds :
          registerSegment(id) /\ id \in sf_files
              => getAvailableSegments'
                     = LargestN(getAvailableSegments \cup {id}, maxSegments)]_vars

\* the latest registration evicted from a full window, and the file of an id
\* below every tracked id is in the cache directory, untracked
C35_Witness ==
    /\ sf_evicted > 0
    /\ Cardinality(getAvailableSegments) = maxSegments
    /\ \E id \in sf_files \ getAvailableSegments :
           id < Smallest(getAvailableSegments) /\ id \notin sf_stats \cup sf_delayed

\* C18: the tracked ids span at most ceil(maxCacheSize / segmentDuration):
\* largest tracked id - smallest tracked id <= maxSegments.
C18_TrackedSpanBounded ==
    getAvailableSegments # {}
        => Largest(getAvailableSegments) - Smallest(getAvailableSegments) <= maxSegments

\* C19: after loadCheckpoint no checkpoint entry whose segment file is absent
\* at reload time is tracked.
C19_ReloadTracksOnlyFiles ==
    sf_lastOp = "initialize" /\ sf_checkpoint.present
        => \A id \in DOMAIN sf_checkpoint.segments :
               id \in getAvailableSegments => id \in sf_files
\* C27: after stop() has completed (isRunning is false until the next start())
\* the segment-generation subprocess has been terminated and none is spawned,
\* not even by a restart timer armed before the stop.
C27_StoppedHasNoSegmenter == ~sf_isRunning => sf_procs = 0

\* C29: initialize() fails only when the cache directory cannot be created; a
\* missing, unreadable or corrupt checkpoint does not make it fail ("initializeFresh"
\* is initialize() returning true without a checkpoint it could read) and leaves
\* the cache starting fresh, with no tracked segments.
C29_FreshWithoutCheckpoint ==
    sf_lastOp = "initializeFresh" => getAvailableSegments = {}

(***************************************************************************)
(* Properties of the multi-component server.                               *)
(***************************************************************************)

\* C13: when stopStreaming was called while a startStreaming call was in flight
\* (status 'starting', awaiting the fetcher or waitForSegments), then once both
\* calls have returned the system is stopped: systemStatus is not 'running',
\* the publisher's isRunning is false and no health-monitor interval is active.
C13_StopWhileStarting ==
    ms_lastRequest = "stopWhileStarting" /\ ms_calls = EmptyBag
        => /\ systemStatus # "running"
           /\ streamPublisher # "running"
           /\ ms_intervals = 0

\* C15: startStreaming with required configuration missing spawns no
\* subprocess, schedules no restart, and leaves the system reporting the error
\* status with lastError naming the missing configuration.
C15_ConfigErrorSurfaced ==
    ~ms_envOK /\ ms_lastRequest = "startStreaming" /\ ms_calls = EmptyBag
        => /\ streamFetcher # "running" /\ streamPublisher # "running"
           /\ ms_intervals = 0
           /\ systemStatus = "error"
           /\ ms_lastError = MissingEnv

TicksInFlight == {c \in MsInFlight : c.fn = "healthTick"}

\* C24: at most one health check executes at a time: a tick that fires while an
\* earlier one is still in flight (awaiting restartStreaming) is skipped.
C24_TicksDoNotOverlap ==
    \A c \in TicksInFlight : CopiesIn(c, ms_calls) = 1 /\ TicksInFlight = {c}

\* C25: a health check in the running state that finds the fetcher not running
\* calls restartStreaming.
C25_FetcherDownRestarts ==
    ms_lastTick.seen /\ ~ms_lastTick.fetcherRunning => ms_lastTick.restart

\* C26: a health check in the running state that finds the publisher with zero
\* active connections calls restartStreaming.
C26_NoConnectionsRestarts ==
    ms_lastTick.seen /\ ms_lastTick.activeConnections = 0 => ms_lastTick.restart

\* C22: once stats.reconnects has passed the threshold, the health monitor
\* calls fallbackQuality() once and not again on later ticks while the count
\* has not been reset.
C22_FallbackOnce == ms_fallbacks <= 1

\* C40: at most one health-monitor interval exists at any time, whatever the
\* interleaving of startStreaming, stopStreaming and restartStreaming calls,
\* two startStreaming calls that overlap in status 'starting' included.
C40_OneHealthMonitor == ms_intervals <= 1

(***************************************************************************)
(* Properties of StreamPublisher.                                          *)
(***************************************************************************)

\* C21: fallbackQuality() followed immediately by restoreQuality() leaves
\* exactly the primary endpoint active once the 10 s settle delay of that
\* restoreQuality() has elapsed, with no backup endpoint active.
C21_FallbackThenRestore ==
    sp_scenario = "settled" => sp_active["primary"] /\ ~sp_active["backup"]

C21_Witness ==
    /\ sp_scenario = "settled"
    /\ sp_isRunning
    /\ sp_publishers["primary"] # 0

\* C23: an endpoint (the primary) whose subprocess has exited more than 10
\* times in a row without a connection is marked active = false with
\* failedConnections incremented, and no reconnect is scheduled for it.
C23_GiveUpAfterMaxReconnects ==
    sp_streak > maxReconnects
        => /\ ~sp_active["primary"]
           /\ sp_failedConnections > 0
           /\ sp_reconnect["primary"] = 0

\* C30: no interleaving of fallbackQuality calls, restoreQuality calls and
\* firings of the settle timer leaves every endpoint inactive.
C30_SomeEndpointActive == \E e \in EndpointNames : sp_active[e]

\* C31: from the call of stop() until the next start() no publisher subprocess
\* is spawned, so that none exists once stop() has completed: a reconnect
\* timer armed by a close handler before the stop spawns nothing afterwards.
C31_NoSpawnAfterStop ==
    [][~sp_isRunning /\ ~sp_isRunning'
          => \A s \in PubSlots : sp_procs'[s].st = "run" => sp_procs[s].st = "run"]_vars

\* C33: the delay before the n-th reconnect in a row of an endpoint (the
\* primary; n exits with no connection in between) is
\* min(2000 * 1.5^(n-1), 30000) ms.
C33_ReconnectDelayGrows ==
    sp_lastDelay # 0 => sp_lastDelay = reconnectDelay(sp_streak)

\* the subprocesses that have reported fps= and have not exited
SpConnected == {s \in PubSlots : sp_procs[s].st # "free" /\ sp_procs[s].isConnected}

\* C37: stats.activeConnections is the number of publisher subprocesses that
\* are connected (have reported fps= and have not exited), whatever the order
\* of the connect and close events of the endpoints: the exit of a subprocess
\* lowers the count by one when that subprocess was connected and leaves it
\* alone when it never connected.
C37_ActiveConnectionsCount ==
    [][\A s \in PubSlots :
          sp_procs[s].st # "free" /\ sp_procs'[s].st = "free"
              => sp_activeConnections' - Cardinality(SpConnected')
                     = sp_activeConnections - Cardinality(SpConnected)]_vars

\* the subprocesses of an endpoint that were spawned and neither signalled nor
\* exited
SpRunning(e) == {s \in PubSlots : sp_procs[s].st = "run" /\ sp_procs[s].endpoint = e}

\* C38: at most one publisher subprocess per endpoint name is running at any
\* time, and the publishers map holds the handle of that subprocess.
C38_OnePublisherPerEndpoint ==
    \A e \in EndpointNames :
        /\ Cardinality(SpRunning(e)) <= 1
        /\ \A s \in SpRunning(e) : sp_publishers[e] = s

(***************************************************************************)
(* Properties of the log.                                                  *)
(***************************************************************************)

\* C28: what startStream of the EOF-aware supervisor and what
\* StreamPublisher.startDirectPublisher log when they spawn is the same for
\* any two stream keys.
C28_LogIndependentOfKey == lg_fn # "none" => lg_logs[1] = lg_logs[2]

====
